---------------------------- MODULE Spec2Model ----------------------------
(***************************************************************************)
(* A model of pkg/bpf/collection.go: the normalisation of a parsed eBPF   *)
(* CollectionSpec (LoadCollectionSpec = removeUnreachableTailcalls, then   *)
(* iproute2Compat, then classifyProgramTypes) and the kernel load          *)
(* (LoadCollection).                                                       *)
(*                                                                         *)
(* Go maps are iterated in an unspecified order: every loop over a Go map  *)
(* takes the next element by a nondeterministic choice among the elements  *)
(* not yet taken.  A Go string is a sequence of one-character strings, so  *)
(* that fmt.Sscanf is modelled by what it scans.                           *)
(***************************************************************************)
EXTENDS Integers, Sequences, FiniteSets, TLC

(***************************************************************************)
(* Bounds of the model.                                                    *)
(***************************************************************************)
\* number of programs of a bundle of the pruning family
NumProgs == 3
\* how often removeUnreachableTailcalls is applied to one bundle
MaxRuns == 2
\* how many calls of LoadCollection the caller makes with one spec
NumCalls == 2

(***************************************************************************)
(* Program constants.                                                      *)
(***************************************************************************)
\* Corresponds to CILIUM_MAP_CALLS.
cilium_calls_map == 2
\* asm.FnTailCall, the number of the bpf_tail_call helper
FnTailCall == 12
\* the size in bytes of the iproute2 trailer struct {ID, Pinning uint32; _ uint64}
TailSize == 16

Nil == "nil"
NoErr == ""

Range(f) == {f[x] : x \in DOMAIN f}

(***************************************************************************)
(* fmt.Sscanf(s, "%d/%v", &id, &slot) with id, slot uint32.                *)
(*   %d : leading spaces skipped, then one or more decimal digits.         *)
(*   "/": the next input character must be "/".                            *)
(*   %v : leading spaces skipped, then a number whose base is read off its *)
(*        prefix: 0x/0X hexadecimal, 0b/0B binary, 0o/0O or a plain        *)
(*        leading 0 octal, decimal otherwise.                              *)
(* Input after the number is not looked at.  ("_" digit separators are not *)
(* in the model's alphabet.)                                               *)
(***************************************************************************)
HexDigits == <<"0","1","2","3","4","5","6","7","8","9","a","b","c","d","e","f">>
UpperHex == <<"0","1","2","3","4","5","6","7","8","9","A","B","C","D","E","F">>

IsDigit(c, base) == \E k \in 1..base : HexDigits[k] = c \/ UpperHex[k] = c
DigitVal(c) == (CHOOSE k \in 1..16 : HexDigits[k] = c \/ UpperHex[k] = c) - 1

RECURSIVE SkipSpace(_, _)
SkipSpace(s, i) ==
    IF i <= Len(s) /\ s[i] = " " THEN SkipSpace(s, i + 1) ELSE i

\* the index after the longest run of base-`base` digits of s that starts at i
RECURSIVE ScanDigits(_, _, _)
ScanDigits(s, i, base) ==
    IF i <= Len(s) /\ IsDigit(s[i], base) THEN ScanDigits(s, i + 1, base) ELSE i

\* the value of the digits s[i..j-1] in base `base`
RECURSIVE DigitsValue(_, _, _, _)
DigitsValue(s, i, j, base) ==
    IF j <= i THEN 0
    ELSE DigitsValue(s, i, j - 1, base) * base + DigitVal(s[j - 1])

ScanFail == [ok |-> FALSE, val |-> 0, next |-> 0]

\* a scanned number.  (Sscanf refuses a number that does not fit the uint32;
\* the section names of the model hold at most three digits.)
ScanResult(v, next) == [ok |-> TRUE, val |-> v, next |-> next]

\* the verb %d into a uint32
ScanUintD(s, i0) ==
    LET i == SkipSpace(s, i0)
        j == ScanDigits(s, i, 10)
    IN  IF j = i THEN ScanFail
        ELSE ScanResult(DigitsValue(s, i, j, 10), j)

\* the verb %v into a uint32 (scanBasePrefix, scanNumber, ParseUint base 0)
ScanUintV(s, i0) ==
    LET i == SkipSpace(s, i0)
        \* digits after a two-character prefix; the prefix alone is no number
        Prefixed(base) ==
            LET j == ScanDigits(s, i + 2, base)
            IN  IF j = i + 2 THEN ScanFail
                ELSE ScanResult(DigitsValue(s, i + 2, j, base), j)
    IN  IF i > Len(s) THEN ScanFail
        ELSE IF s[i] = "0"
        THEN IF i + 1 <= Len(s) /\ s[i + 1] \in {"x", "X"} THEN Prefixed(16)
             ELSE IF i + 1 <= Len(s) /\ s[i + 1] \in {"b", "B"} THEN Prefixed(2)
             ELSE IF i + 1 <= Len(s) /\ s[i + 1] \in {"o", "O"} THEN Prefixed(8)
             ELSE LET j == ScanDigits(s, i + 1, 8)
                  IN  ScanResult(DigitsValue(s, i + 1, j, 8), j)
        ELSE LET j == ScanDigits(s, i, 10)
             IN  IF j = i THEN ScanFail
                 ELSE ScanResult(DigitsValue(s, i, j, 10), j)

\* a slot scanned with %d instead of %v: the base prefix is not understood
ScanUintV_DecimalOnly(s, i0) == ScanUintD(s, i0)

\* the verb used for the slot
ScanSlot(s, i0) == ScanUintV(s, i0)

\* [err, id, slot]: err is TRUE when Sscanf returns an error
Sscanf(s) ==
    LET a == ScanUintD(s, 1)
    IN  IF ~a.ok THEN [err |-> TRUE, id |-> 0, slot |-> 0]
        ELSE IF a.next > Len(s) \/ s[a.next] # "/"
        THEN [err |-> TRUE, id |-> a.val, slot |-> 0]
        ELSE LET b == ScanSlot(s, a.next + 1)
             IN  IF ~b.ok THEN [err |-> TRUE, id |-> a.val, slot |-> 0]
                 ELSE [err |-> FALSE, id |-> a.val, slot |-> b.val]

(***************************************************************************)
(* asm.Instruction, as far as the scan reads it: the operation, the        *)
(* destination register, the source (a register or a pseudo source), the   *)
(* constant and the symbol the instruction refers to.                      *)
(***************************************************************************)
Ins(op, dst, src, constant, ref) ==
    [op |-> op, dst |-> dst, src |-> src, constant |-> constant, ref |-> ref]

\* helper call: JumpOp Call with Src = Dst = R0 and the helper number as constant
CallFn(fn) == Ins("Call", "R0", "R0", fn, "")
\* 64 bit immediate load of a map's file descriptor into R2
LdMap(ref) == Ins("LdImmDW", "R2", "PseudoMapFD", 0, ref)
\* 64 bit immediate load of the address of a map value
LdMapValue(ref) == Ins("LdImmDW", "R2", "PseudoMapValue", 0, ref)
\* mov dst, imm
MovImm(dst, c) == Ins("Mov", dst, "Imm", c, "")
\* mov dst, src: the constant field of a register move is 0
MovReg(dst, src) == Ins("Mov", dst, src, 0, "")
Other == Ins("Exit", "R0", "R0", 0, "")

\* uint32(x) of an int64: the constants of the model are in 0 .. 2^31 - 1,
\* which the conversion leaves as they are
Uint32(x) == x

\* inst.IsBuiltinCall() && inst.Constant == int64(asm.FnTailCall)
IsTailCall(inst) ==
    inst.op = "Call" /\ inst.src = "R0" /\ inst.dst = "R0" /\ inst.constant = FnTailCall

\* movIdx.OpCode.ALUOp() == asm.Mov && movIdx.Dst == asm.R3
IsMovR3(inst) == inst.op = "Mov" /\ inst.dst = "R3"

\* movR2.OpCode == asm.LoadImmOp(asm.DWord) && movR2.Src == asm.PseudoMapFD
IsLoadMap(inst) == inst.op = "LdImmDW" /\ inst.src = "PseudoMapFD"

\* a scan that starts one instruction earlier, where the look-back of two
\* instructions first fits
FirstScanned_Two == 3 - 1
\* the scan looks at Instructions[i] for i = FirstScanned .. len-1 (0-based)
FirstScanned == 3

\* the 0-based instruction of a program
At(insns, i) == insns[i + 1]

\* instruction i of insns (0-based) is a tail call the scan takes as static
Matches(insns, i) ==
    /\ IsTailCall(At(insns, i))
    /\ IsMovR3(At(insns, i - 1))
    /\ IsLoadMap(At(insns, i - 2))

\* a scan that does not look at the map the call goes through
IsCallsMap_AnyMap(ref) == TRUE
\* ref == "cilium_calls"
IsCallsMap(ref) == ref = "cilium_calls"

(***************************************************************************)
(* visit(prog, tailcalls): the scan from instruction i on.  tcs maps a     *)
(* slot to its TailCall [referenced, visited, spec].  The result is the    *)
(* marked table and, when a static tail call has no entry, the error       *)
(* (the marks made before it stay, the table being shared).                *)
(***************************************************************************)
RECURSIVE VisitFrom(_, _, _)
VisitFrom(insns, i, tcs) ==
    IF i >= Len(insns) THEN [err |-> NoErr, tcs |-> tcs]
    ELSE IF ~Matches(insns, i) THEN VisitFrom(insns, i + 1, tcs)
    ELSE IF ~IsCallsMap(At(insns, i - 2).ref) THEN VisitFrom(insns, i + 1, tcs)
    ELSE LET slot == Uint32(At(insns, i - 1).constant)
         IN  IF slot \notin DOMAIN tcs
             THEN [err |-> "tail call to unknown index", tcs |-> tcs]
             ELSE VisitFrom(insns, i + 1,
                            [tcs EXCEPT ![slot].referenced = TRUE])

\* a scan that passes over a static tail call to a slot without entry
RECURSIVE VisitFrom_SkipUnknown(_, _, _)
VisitFrom_SkipUnknown(insns, i, tcs) ==
    IF i >= Len(insns) THEN [err |-> NoErr, tcs |-> tcs]
    ELSE IF ~Matches(insns, i) \/ ~IsCallsMap(At(insns, i - 2).ref)
              \/ Uint32(At(insns, i - 1).constant) \notin DOMAIN tcs
    THEN VisitFrom_SkipUnknown(insns, i + 1, tcs)
    ELSE VisitFrom_SkipUnknown(insns, i + 1,
            [tcs EXCEPT ![Uint32(At(insns, i - 1).constant)].referenced = TRUE])

Visit_SkipUnknown(insns, tcs) == VisitFrom_SkipUnknown(insns, FirstScanned, tcs)

Visit(insns, tcs) == VisitFrom(insns, FirstScanned, tcs)


(***************************************************************************)
(* The bundle (ebpf.CollectionSpec).                                       *)
(*   Programs : key -> [Name, SectionName, Type, Instructions]             *)
(*   Maps     : key -> [Name, Extra, Pinning, Contents]                    *)
(*   Variables: name -> [MapName, Value]                                   *)
(* Extra is the unread rest of the legacy trailer (<<>>: none), Contents a *)
(* sequence of MapKV [Key, Value].                                         *)
(***************************************************************************)
Prog(name, section, type, insns) ==
    [Name |-> name, SectionName |-> section, Type |-> type, Instructions |-> insns]

MapSpec(name, extra, pinning) ==
    [Name |-> name, Extra |-> extra, Pinning |-> pinning, Contents |-> <<>>]

UnspecifiedProgram == "UnspecifiedProgram"

\* a uint32 in 4 bytes, and back, in the bundle's byte order
EncU32(v, order) ==
    LET le == << v % 256, (v \div 256) % 256, (v \div 65536) % 256,
                 (v \div 16777216) % 256 >>
    IN  IF order = "LittleEndian" THEN le ELSE << le[4], le[3], le[2], le[1] >>

DecU32(b, off, order) ==
    IF order = "LittleEndian"
    THEN b[off + 1] + 256 * b[off + 2] + 65536 * b[off + 3] + 16777216 * b[off + 4]
    ELSE b[off + 4] + 256 * b[off + 3] + 65536 * b[off + 2] + 16777216 * b[off + 1]

\* a decoder that takes every trailer for little endian
ByteOrderOf_Little(s) == "LittleEndian"
\* spec.ByteOrder
ByteOrderOf(s) == s.ByteOrder

\* the trailer {ID, Pinning uint32; _ uint64} as the ELF holds it
Trailer(id, pinning, order) ==
    EncU32(id, order) \o EncU32(pinning, order) \o <<0, 0, 0, 0, 0, 0, 0, 0>>

(***************************************************************************)
(* The state.                                                              *)
(***************************************************************************)
VARIABLES
    spec,         \* the caller's CollectionSpec, normalised in place
    input,        \* the bundle as the parser returned it (never written)
    pc,           \* where LoadCollectionSpec is
    stage,        \* how many of its steps LoadCollectionSpec has begun
    err,          \* the error it returns, NoErr while there is none
    ret,          \* what it returned: "none" (running), "spec" or "nil"
    todo,         \* the keys a loop over a Go map has not yet taken
    entrypoints,  \* removeUnreachableTailcalls: the list of entrypoint keys
    nextEntry,    \* ... the index of the entrypoint visited next
    tailcalls,    \* ... slot -> [referenced, visited, spec (a program key)]
    scanned,      \* the program keys visit has scanned in this run, in order
    runs,         \* how often removeUnreachableTailcalls has been started
    firstRun,     \* the program keys left by its first successful run
    maps          \* iproute2Compat: trailer id -> map key

nvars == << spec, input, pc, stage, err, ret, todo, entrypoints, nextEntry, tailcalls,
            scanned, runs, firstRun, maps >>

\* LoadCollection; every variable but heap, bpffs and concurrent is a function
\* of the call
VARIABLES
    heap,         \* the CollectionSpec objects, by reference
    bpffs,        \* the pin filesystem: pin name -> the map pinned there
    concurrent,   \* whether the caller runs its calls on separate threads
    arg,          \* the arguments: [spec (a reference or Nil), opts], and
                  \* whether the call is made through LoadAndAssign
    at,           \* where the call is
    specRef,      \* its local variable spec
    pending,      \* the keys a loop over a Go map has not yet taken
    toReplace,    \* its local variable toReplace
    attempts,     \* how often it has called ebpf.NewCollectionWithOptions
    coll,         \* the Collection the kernel gave it, Nil while there is none
    pins,         \* the pins its commit function holds
    loadErr,      \* its local variable err, which is the error it returns
    to            \* LoadAndAssign: the maps Assign has moved into the object to

lvars == << heap, bpffs, concurrent, arg, at, specRef, pending, toReplace, attempts,
            coll, pins, loadErr, to >>

vars == << nvars, lvars >>

Empty == [x \in {} |-> 0]

(***************************************************************************)
(* The bundles of the initial states: what the ELF reader returns.  A      *)
(* program's key is its Name, no map has contents, and a trailer is        *)
(* encoded in the bundle's byte order.                                     *)
(***************************************************************************)
Str_tc == <<"t", "c">>
Calls == "cilium_calls"

\* ... ; r2 = <ref> ll ; r3 = <c> ; call 12
Idiom(ref, c) == << LdMap(ref), MovImm("R3", c), CallFn(FnTailCall) >>
\* the four instructions tail_call_static compiles to
StaticCall(ref, c) == << MovReg("R1", "R6") >> \o Idiom(ref, c)

\* bodies of the entrypoint of the pruning family
EntryBodies ==
    { <<>>,
      StaticCall(Calls, 7),
      StaticCall(Calls, 0),
      StaticCall(Calls, 9),
      StaticCall(Calls, 7) \o StaticCall(Calls, 0),
      Idiom(Calls, 7),
      Idiom(Calls, 9),
      StaticCall("other_map", 7),
      StaticCall("other_map", 9),
      \* a tail call whose index is in a register
      << MovReg("R1", "R6"), LdMap(Calls), MovReg("R3", "R7"), CallFn(FnTailCall) >>,
      \* near misses: the index not in R3, another helper, a map value
      << MovReg("R1", "R6"), LdMap(Calls), MovImm("R4", 7), CallFn(FnTailCall) >>,
      << MovReg("R1", "R6"), LdMap(Calls), MovImm("R3", 7), CallFn(1) >>,
      << MovReg("R1", "R6"), LdMapValue(Calls), MovImm("R3", 7), CallFn(FnTailCall) >> }

\* the other programs of the pruning family, << section name, body >>: slot 7
\* in decimal and in hexadecimal, slot 0; calls of themselves, of each other
\* and of a slot that no program has
TailProgs ==
    { << <<"2", "/", "7">>, <<>> >>,
      << <<"2", "/", "7">>, StaticCall(Calls, 7) >>,
      << <<"2", "/", "7">>, StaticCall(Calls, 0) >>,
      << <<"2", "/", "7">>, StaticCall(Calls, 9) >>,
      << <<"2", "/", "0", "x", "7">>, <<>> >>,
      << <<"2", "/", "0", "x", "7">>, StaticCall(Calls, 0) >>,
      << <<"2", "/", "0">>, <<>> >>,
      << <<"2", "/", "0">>, StaticCall(Calls, 7) >>,
      << <<"2", "/", "0">>, StaticCall(Calls, 0) >> }

ProgPool == << "cil_from_container", "tail_a", "tail_b", "tail_c", "tail_d" >>

\* the maps of a bundle whose trailers are in order
PlainMaps(order) ==
    [k \in {Calls, "aux_calls", "plain"} |->
        CASE k = Calls -> MapSpec(k, Trailer(cilium_calls_map, 1, order), 0)
          [] k = "aux_calls" -> MapSpec(k, Trailer(3, 2, order), 0)
          [] OTHER -> MapSpec(k, <<>>, 0)]

\* the variables of every bundle: one of the config section, one of .data
BundleVariables ==
    [n \in {"__config_a", "counter"} |->
        IF n = "__config_a"
        THEN [MapName |-> ".rodata.config", Size |-> 4, Value |-> 0]
        ELSE [MapName |-> ".data", Size |-> 4, Value |-> 5]]

Bundle(progs, mapspecs, order) ==
    [Programs |-> progs, Maps |-> mapspecs, Variables |-> BundleVariables,
     ByteOrder |-> order]

\* one entrypoint and NumProgs - 1 programs named as tail calls
PruneBundles ==
    { Bundle([k \in {ProgPool[i] : i \in 1..NumProgs} |->
                IF k = ProgPool[1]
                THEN Prog(k, Str_tc, UnspecifiedProgram, e)
                ELSE Prog(k, t[k][1], UnspecifiedProgram, t[k][2])],
             PlainMaps("LittleEndian"), "LittleEndian") :
        e \in EntryBodies,
        t \in [{ProgPool[i] : i \in 2..NumProgs} -> TailProgs] }

\* section names of the translator family: slots of maps other than 2
CompatSections ==
    { Str_tc, <<"3", "/", "1", "2">>, <<"3", "/", "0", "x", "c">>,
      <<"3", "/", "0", "1", "4">>, <<"5", "/", "1">>, <<"0", "/", "1">>,
      <<"3", "/">>, <<"3", "/", "0", "x">>, <<"/", "3">> }

\* the trailer of the second and of the third map: [id, pinning] or none
AuxTrailers == { <<3, 1>>, <<0, 2>>, <<2, 1>>, <<>> }
ThirdTrailers == { <<>>, <<3, 0>> }

CompatBundles ==
    { Bundle([k \in {ProgPool[1], ProgPool[2]} |->
                Prog(k, sec[k], UnspecifiedProgram, <<>>)],
             [k \in {Calls, "aux_calls", "plain"} |->
                CASE k = Calls -> MapSpec(k, Trailer(cilium_calls_map, 1, order), 0)
                  [] k = "aux_calls" ->
                        MapSpec(k, IF a = <<>> THEN <<>>
                                   ELSE SubSeq(Trailer(a[1], a[2], order), 1, cut), 0)
                  [] OTHER ->
                        MapSpec(k, IF b = <<>> THEN <<>>
                                   ELSE Trailer(b[1], b[2], order), 0)],
             order) :
        sec \in [{ProgPool[1], ProgPool[2]} -> CompatSections],
        a \in AuxTrailers, b \in ThirdTrailers,
        order \in {"LittleEndian", "BigEndian"},
        cut \in {TailSize, TailSize - 4} }

\* names and types of the classifier family
KnownXDP == {"cil_xdp_entry"}
KnownSchedCLS ==
    { "cil_from_container", "cil_to_container",
      "cil_from_netdev", "cil_from_host", "cil_to_netdev", "cil_to_host",
      "cil_from_network",
      "cil_to_overlay", "cil_from_overlay",
      "cil_to_wireguard", "cil_from_wireguard" }

TypeNames == { "cil_from_container", "cil_xdp_entry", "handle_policy", "cil_sock4_connect" }
ParserTypes == { UnspecifiedProgram, "Kprobe", "CGroupSockAddr" }

TypeBundles ==
    { Bundle([k \in names |-> Prog(k, Str_tc, ty[k], <<>>)],
             PlainMaps("LittleEndian"), "LittleEndian") :
        names \in SUBSET TypeNames, ty \in [TypeNames -> ParserTypes] }

Bundles == PruneBundles \cup CompatBundles \cup TypeBundles

\* no call of LoadCollection
NoCalls ==
    /\ heap = <<>>
    /\ bpffs = Empty
    /\ concurrent = FALSE
    /\ arg = Empty
    /\ at = Empty
    /\ specRef = Empty
    /\ pending = Empty
    /\ toReplace = Empty
    /\ attempts = Empty
    /\ coll = Empty
    /\ pins = Empty
    /\ loadErr = Empty
    /\ to = Empty

Init ==
    /\ spec \in Bundles
    /\ input = spec
    /\ pc = "call"
    /\ stage = 0
    /\ err = NoErr
    /\ ret = "none"
    /\ todo = {}
    /\ entrypoints = <<>>
    /\ nextEntry = 1
    /\ tailcalls = Empty
    /\ scanned = <<>>
    /\ runs = 0
    /\ firstRun = {}
    /\ maps = Empty
    /\ NoCalls

(***************************************************************************)
(* LoadCollectionSpec: the three steps in their order.  pc = "call" is the *)
(* place between two steps; an error of a step is returned with no spec.   *)
(***************************************************************************)
\* the translation before the pruning
Steps_CompatFirst ==
    << "iproute2Compat", "removeUnreachableTailcalls", "classifyProgramTypes" >>

Steps ==
    << "removeUnreachableTailcalls", "iproute2Compat", "classifyProgramTypes" >>

\* the step LoadCollectionSpec calls next
Calling(f) == pc = "call" /\ stage < Len(Steps) /\ Steps[stage + 1] = f
\* the step that has just returned nil
Returned(f) == pc = "call" /\ stage >= 1 /\ Steps[stage] = f

\* return nil, err
Fail(e) ==
    /\ pc' = "failed"
    /\ err' = e
    /\ ret' = "nil"

\* return spec, nil
Return_Spec ==
    /\ pc = "call"
    /\ stage = Len(Steps)
    /\ pc' = "done"
    /\ ret' = "spec"
    /\ UNCHANGED << spec, input, stage, err, todo, entrypoints, nextEntry, tailcalls,
                    scanned, runs, firstRun, maps >>
    /\ UNCHANGED lvars

(***************************************************************************)
(* removeUnreachableTailcalls                                              *)
(***************************************************************************)
TailCall(key) == [referenced |-> FALSE, visited |-> FALSE, spec |-> key]

\* The function is entered: called by LoadCollectionSpec, or applied once more
\* to the bundle it has just returned.
Prune_Begin ==
    /\ \/ /\ Calling("removeUnreachableTailcalls")
          /\ stage' = stage + 1
       \/ /\ Returned("removeUnreachableTailcalls")
          /\ runs < MaxRuns
          /\ stage' = stage
    /\ pc' = "partition"
    /\ todo' = DOMAIN spec.Programs
    /\ entrypoints' = <<>>
    /\ nextEntry' = 1
    /\ tailcalls' = Empty
    /\ scanned' = <<>>
    /\ runs' = runs + 1
    /\ UNCHANGED << spec, input, err, ret, firstRun, maps >>
    /\ UNCHANGED lvars

\* the loop over spec.Programs has taken every program
AfterPartition == IF todo' = {} THEN "entry" ELSE "partition"

\* a partition that keeps the later of two programs of one slot
Prune_Partition_NoDuplicateCheck ==
    /\ pc = "partition"
    /\ \E k \in todo :
          LET r == Sscanf(spec.Programs[k].SectionName)
          IN  /\ todo' = todo \ {k}
              /\ IF r.err \/ r.id # cilium_calls_map
                 THEN /\ entrypoints' = Append(entrypoints, k)
                      /\ UNCHANGED tailcalls
                 ELSE /\ tailcalls' =
                            [s \in DOMAIN tailcalls \cup {r.slot} |->
                                IF s = r.slot THEN TailCall(k) ELSE tailcalls[s]]
                      /\ UNCHANGED entrypoints
              /\ pc' = AfterPartition
              /\ UNCHANGED << err, ret >>
    /\ UNCHANGED << spec, input, stage, nextEntry, scanned, runs, firstRun, maps >>
    /\ UNCHANGED lvars

\* one turn of the loop over spec.Programs
Prune_Partition ==
    /\ pc = "partition"
    /\ \E k \in todo :
          LET r == Sscanf(spec.Programs[k].SectionName)
          IN  /\ todo' = todo \ {k}
              /\ IF r.err \/ r.id # cilium_calls_map
                 THEN /\ entrypoints' = Append(entrypoints, k)
                      /\ pc' = AfterPartition
                      /\ UNCHANGED << tailcalls, err, ret >>
                 ELSE IF r.slot \in DOMAIN tailcalls
                 THEN /\ Fail("duplicate tail call index")
                      /\ UNCHANGED << entrypoints, tailcalls >>
                 ELSE /\ tailcalls' =
                            [s \in DOMAIN tailcalls \cup {r.slot} |->
                                IF s = r.slot THEN TailCall(k) ELSE tailcalls[s]]
                      /\ pc' = AfterPartition
                      /\ UNCHANGED << entrypoints, err, ret >>
    /\ UNCHANGED << spec, input, stage, nextEntry, scanned, runs, firstRun, maps >>
    /\ UNCHANGED lvars

\* the entrypoints are visited in the order of the list
Prune_VisitEntry ==
    /\ pc = "entry"
    /\ nextEntry <= Len(entrypoints)
    /\ LET k == entrypoints[nextEntry]
           v == Visit(spec.Programs[k].Instructions, tailcalls)
       IN  /\ tailcalls' = v.tcs
           /\ scanned' = Append(scanned, k)
           /\ nextEntry' = nextEntry + 1
           /\ IF v.err # NoErr
              THEN Fail(v.err)
              ELSE UNCHANGED << pc, err, ret >>
    /\ UNCHANGED << spec, input, stage, todo, entrypoints, runs, firstRun, maps >>
    /\ UNCHANGED lvars

\* after the last entrypoint the loop at the label reset begins
Prune_EntriesDone ==
    /\ pc = "entry"
    /\ nextEntry > Len(entrypoints)
    /\ pc' = "reset"
    /\ UNCHANGED << spec, input, stage, err, ret, todo, entrypoints, nextEntry,
                    tailcalls, scanned, runs, firstRun, maps >>
    /\ UNCHANGED lvars

\* a loop that stops after the tail calls the entrypoints refer to
ToVisit_None == {}
\* a loop that visits every tail call, referenced or not
ToVisit_All == {s \in DOMAIN tailcalls : ~tailcalls[s].visited}

\* the tail calls the loop at reset stops at: referenced and not visited
ToVisit == {s \in DOMAIN tailcalls : tailcalls[s].referenced /\ ~tailcalls[s].visited}

\* a loop that, when a visit fails, deletes the tail calls not referenced so
\* far before it returns the error
Prune_VisitTailcall_Sweeping ==
    /\ pc = "reset"
    /\ \E s \in ToVisit :
          LET v == Visit(spec.Programs[tailcalls[s].spec].Instructions, tailcalls)
              unreferenced ==
                  { spec.Programs[tailcalls[x].spec].Name :
                      x \in {y \in DOMAIN tailcalls : ~tailcalls[y].referenced} }
          IN  /\ scanned' = Append(scanned, tailcalls[s].spec)
              /\ IF v.err # NoErr
                 THEN /\ tailcalls' = v.tcs
                      /\ spec' = [spec EXCEPT !.Programs =
                                      [k \in DOMAIN spec.Programs \ unreferenced |->
                                          spec.Programs[k]]]
                      /\ Fail(v.err)
                 ELSE /\ tailcalls' = [v.tcs EXCEPT ![s].visited = TRUE]
                      /\ UNCHANGED << spec, pc, err, ret >>
    /\ UNCHANGED << input, stage, todo, entrypoints, nextEntry, runs, firstRun, maps >>
    /\ UNCHANGED lvars

\* a loop that does not mark the tail call it has visited
Prune_VisitTailcall_Unmarked ==
    /\ pc = "reset"
    /\ \E s \in ToVisit :
          LET v == Visit(spec.Programs[tailcalls[s].spec].Instructions, tailcalls)
          IN  /\ scanned' = Append(scanned, tailcalls[s].spec)
              /\ tailcalls' = v.tcs
              /\ IF v.err # NoErr
                 THEN Fail(v.err)
                 ELSE UNCHANGED << pc, err, ret >>
    /\ UNCHANGED << spec, input, stage, todo, entrypoints, nextEntry, runs, firstRun,
                    maps >>
    /\ UNCHANGED lvars

\* the loop at reset finds a tail call to visit (any of them may come first in
\* the order of the Go map), visits it and starts over
Prune_VisitTailcall ==
    /\ pc = "reset"
    /\ \E s \in ToVisit :
          LET v == Visit(spec.Programs[tailcalls[s].spec].Instructions, tailcalls)
          IN  /\ scanned' = Append(scanned, tailcalls[s].spec)
              /\ IF v.err # NoErr
                 THEN /\ tailcalls' = v.tcs
                      /\ Fail(v.err)
                 ELSE /\ tailcalls' = [v.tcs EXCEPT ![s].visited = TRUE]
                      /\ UNCHANGED << pc, err, ret >>
    /\ UNCHANGED << spec, input, stage, todo, entrypoints, nextEntry, runs, firstRun,
                    maps >>
    /\ UNCHANGED lvars

\* the names the last loop deletes from spec.Programs
Unreferenced ==
    { spec.Programs[tailcalls[s].spec].Name :
        s \in {x \in DOMAIN tailcalls : ~tailcalls[x].referenced} }

\* the loop at reset ends without a visit; every tail call that is not
\* referenced is deleted from spec.Programs and the function returns nil
Prune_Delete ==
    /\ pc = "reset"
    /\ ToVisit = {}
    /\ spec' = [spec EXCEPT !.Programs =
                    [k \in DOMAIN spec.Programs \ Unreferenced |-> spec.Programs[k]]]
    /\ firstRun' = IF runs = 1 THEN DOMAIN spec'.Programs ELSE firstRun
    /\ pc' = "call"
    \* the function returns: its locals are gone
    /\ entrypoints' = <<>>
    /\ nextEntry' = 1
    /\ tailcalls' = Empty
    /\ scanned' = <<>>
    /\ UNCHANGED << input, stage, err, ret, todo, runs, maps >>
    /\ UNCHANGED lvars

(***************************************************************************)
(* iproute2Compat                                                          *)
(***************************************************************************)
Compat_Begin ==
    /\ Calling("iproute2Compat")
    /\ stage' = stage + 1
    /\ pc' = "maps"
    /\ maps' = Empty
    /\ todo' = DOMAIN spec.Maps
    /\ UNCHANGED << spec, input, err, ret, entrypoints, nextEntry, tailcalls,
                    scanned, runs, firstRun >>
    /\ UNCHANGED lvars

\* fmt.Errorf("maps %s and %s have duplicate iproute2 map ID %d", ...), the
\* id left out
DuplicateID(m, m2) ==
    "maps " \o m.Name \o " and " \o m2.Name \o " have duplicate iproute2 map ID"

\* the loop over spec.Maps has taken every map
AfterMaps == IF todo' = {} THEN "progs" ELSE "maps"

\* one turn of the loop over spec.Maps
Compat_Map ==
    /\ pc = "maps"
    /\ \E k \in todo :
          LET m == spec.Maps[k]
              order == ByteOrderOf(spec)
          IN  /\ todo' = todo \ {k}
              /\ IF Len(m.Extra) = 0
                 THEN /\ pc' = AfterMaps
                      /\ UNCHANGED << spec, maps, err, ret >>
                 ELSE IF Len(m.Extra) < TailSize
                 \* binary.Read: the reader is drained, io.ErrUnexpectedEOF
                 THEN /\ spec' = [spec EXCEPT !.Maps[k].Extra = <<>>]
                      /\ Fail("reading iproute2 map definition")
                      /\ UNCHANGED maps
                 ELSE LET id == DecU32(m.Extra, 0, order)
                          pinning == DecU32(m.Extra, 4, order)
                      IN  /\ spec' = [spec EXCEPT
                                        !.Maps[k].Extra = SubSeq(m.Extra, TailSize + 1, Len(m.Extra)),
                                        !.Maps[k].Pinning = pinning]
                          /\ IF id = 0
                             THEN /\ pc' = AfterMaps
                                  /\ UNCHANGED << maps, err, ret >>
                             ELSE IF id \in DOMAIN maps
                             THEN /\ Fail(DuplicateID(m, spec.Maps[maps[id]]))
                                  /\ UNCHANGED maps
                             ELSE /\ maps' = [i \in DOMAIN maps \cup {id} |->
                                                IF i = id THEN k ELSE maps[i]]
                                  /\ pc' = AfterMaps
                                  /\ UNCHANGED << err, ret >>
    /\ UNCHANGED << input, stage, entrypoints, nextEntry, tailcalls, scanned, runs,
                    firstRun >>
    /\ UNCHANGED lvars

\* the loop over spec.Programs begins; without a program the function returns
Compat_MapsDone ==
    /\ pc = "progs"
    /\ todo' = DOMAIN spec.Programs
    /\ pc' = IF todo' = {} THEN "call" ELSE "slots"
    /\ UNCHANGED << spec, input, stage, err, ret, entrypoints, nextEntry, tailcalls,
                    scanned, runs, firstRun, maps >>
    /\ UNCHANGED lvars

\* a lookup that falls back to the calls map
MapOf_Default(id) == IF id \in DOMAIN maps THEN maps[id] ELSE Calls

\* maps[id]: the map a program of the given id is assigned to, Nil without one
MapOf(id) == IF id \in DOMAIN maps THEN maps[id] ELSE Nil

\* the loop over spec.Programs has taken every program: return nil
AfterSlots == IF todo' = {} THEN "call" ELSE "slots"

\* one turn of the loop over spec.Programs
Compat_Prog ==
    /\ pc = "slots"
    /\ \E n \in todo :
          LET r == Sscanf(spec.Programs[n].SectionName)
          IN  /\ todo' = todo \ {n}
              /\ IF r.err
                 THEN /\ pc' = AfterSlots
                      /\ UNCHANGED << spec, err, ret >>
                 ELSE IF MapOf(r.id) = Nil
                 THEN /\ Fail("no map with iproute2 map .id")
                      /\ UNCHANGED spec
                 ELSE /\ spec' = [spec EXCEPT !.Maps[MapOf(r.id)].Contents =
                                    Append(@, [Key |-> r.slot, Value |-> n])]
                      /\ pc' = AfterSlots
                      /\ UNCHANGED << err, ret >>
    /\ UNCHANGED << input, stage, entrypoints, nextEntry, tailcalls, scanned, runs,
                    firstRun, maps >>
    /\ UNCHANGED lvars

(***************************************************************************)
(* classifyProgramTypes                                                    *)
(***************************************************************************)
\* a table that knows no name
Verdict_NoNames(name) == spec.Programs[name].Type

\* the type the first loop takes from the program of key `name`, or
\* UnspecifiedProgram when it goes on to the next program
Verdict(name) ==
    IF spec.Programs[name].Type # UnspecifiedProgram THEN spec.Programs[name].Type
    ELSE IF name \in KnownXDP THEN "XDP"
    ELSE IF name \in KnownSchedCLS THEN "SchedCLS"
    ELSE UnspecifiedProgram

\* The first loop ends at the first program, in the order of the Go map, that
\* gives a verdict: any such program can be that one.  Without one it runs to
\* its end and t stays UnspecifiedProgram.
Defaults ==
    LET hits == {n \in DOMAIN spec.Programs : Verdict(n) # UnspecifiedProgram}
    IN  IF hits = {} THEN {UnspecifiedProgram} ELSE {Verdict(n) : n \in hits}

Classify ==
    /\ Calling("classifyProgramTypes")
    /\ stage' = stage + 1
    /\ \E t \in Defaults :
          /\ spec' = [spec EXCEPT !.Programs =
                        [n \in DOMAIN spec.Programs |->
                            IF spec.Programs[n].Type = UnspecifiedProgram
                            THEN [spec.Programs[n] EXCEPT !.Type = t]
                            ELSE spec.Programs[n]]]
          /\ IF t = UnspecifiedProgram
             THEN Fail("unable to classify program types")
             ELSE UNCHANGED << pc, err, ret >>
    /\ UNCHANGED << input, todo, entrypoints, nextEntry, tailcalls, scanned, runs,
                    firstRun, maps >>
    /\ UNCHANGED lvars

Next ==
    \/ Prune_Begin
    \/ Prune_Partition
    \/ Prune_VisitEntry
    \/ Prune_EntriesDone
    \/ Prune_VisitTailcall
    \/ Prune_Delete
    \/ Compat_Begin
    \/ Compat_Map
    \/ Compat_MapsDone
    \/ Compat_Prog
    \/ Classify
    \/ Return_Spec

Spec == Init /\ [][Next]_vars

(***************************************************************************)
(* What the claims speak of, read off the bundle as the parser returned it *)
(* (input), not off the tables the functions build.                        *)
(***************************************************************************)
InProgs == input.Programs

\* a section name <id>/<slot> with the id of the calls map
IsCandidate(section) ==
    LET r == Sscanf(section) IN ~r.err /\ r.id = cilium_calls_map

\* the programs named as tail calls of the calls map, and their slots
Candidates == {k \in DOMAIN InProgs : IsCandidate(InProgs[k].SectionName)}
Entrypoints == DOMAIN InProgs \ Candidates
SlotOf(k) == Sscanf(InProgs[k].SectionName).slot
CandidateSlots == {SlotOf(k) : k \in Candidates}

\* the slots of the candidates, by program key
SlotsOfCandidates ==
    LET parsed == [k \in DOMAIN InProgs |-> Sscanf(InProgs[k].SectionName)]
    IN  [k \in {c \in DOMAIN InProgs :
                  ~parsed[c].err /\ parsed[c].id = cilium_calls_map} |->
            parsed[k].slot]

\* two candidates of one slot
DuplicateSlot ==
    LET slots == SlotsOfCandidates
    IN  \E k1, k2 \in DOMAIN slots : k1 # k2 /\ slots[k1] = slots[k2]

\* Instruction i (0-based) ends a tail call through the map `ref`: a load of
\* the map reference, a move into R3, the call of the tail call helper.  With
\* `constantOnly` the move is of a constant, as the three-instruction idiom says.
CallSite(insns, i, constantOnly) ==
    /\ At(insns, i).op = "Call" /\ At(insns, i).constant = FnTailCall
    /\ At(insns, i - 1).op = "Mov" /\ At(insns, i - 1).dst = "R3"
    /\ constantOnly => At(insns, i - 1).src = "Imm"
    /\ At(insns, i - 2).op = "LdImmDW" /\ At(insns, i - 2).src = "PseudoMapFD"

\* the slots of the calls map that the call sites of insns at the indices
\* first .. len-1 go to
Targets(insns, first, constantOnly) ==
    { At(insns, i - 1).constant :
        i \in {j \in first..(Len(insns) - 1) :
                 CallSite(insns, j, constantOnly) /\ At(insns, j - 2).ref = Calls} }

\* the slots reachable from the entrypoints: the least set that holds the
\* targets of every entrypoint and of every candidate whose slot it holds
\* (slots: candidate -> its slot, targets: program -> the slots it goes to)
RECURSIVE Closure(_, _, _)
Closure(reached, slots, targets) ==
    LET more == UNION { targets[k] : k \in {c \in DOMAIN slots : slots[c] \in reached} }
    IN  IF more \subseteq reached THEN reached
        ELSE Closure(reached \cup more, slots, targets)

Reachable(first, constantOnly) ==
    LET slots == SlotsOfCandidates
        targets == [k \in DOMAIN InProgs |->
                       Targets(InProgs[k].Instructions, first, constantOnly)]
    IN  Closure(UNION { targets[k] : k \in DOMAIN InProgs \ DOMAIN slots },
                slots, targets)

\* removeUnreachableTailcalls has returned nil for the first time / again
Pruned == Returned("removeUnreachableTailcalls")
PruneErrors == {"duplicate tail call index", "tail call to unknown index"}
\* LoadCollectionSpec is in removeUnreachableTailcalls or has left it with an error
InPrune == pc \in {"partition", "entry", "reset"} \/ (pc = "failed" /\ err \in PruneErrors)

(***************************************************************************)
(* C1: after a successful removeUnreachableTailcalls the programs are      *)
(* exactly the entrypoints and the candidates whose slot is reachable from *)
(* an entrypoint through static tail calls into cilium_calls (load of the  *)
(* map reference, constant slot into R3, call of the tail call helper);    *)
(* every other candidate is absent.  The static tail calls are counted     *)
(* where the scan looks for them, the call at instruction index 3 or       *)
(* later (see C4).                                                         *)
(***************************************************************************)
C1_AsStated ==
    (Pruned /\ runs = 1) =>
        DOMAIN spec.Programs =
            Entrypoints \cup
                {k \in Candidates : SlotOf(k) \in Reachable(FirstScanned, TRUE)}

(***************************************************************************)
(* What the pruning keeps: the entrypoints and the candidates whose slot   *)
(* is reachable through the call sites the scan takes, which are the load  *)
(* of the reference to cilium_calls, a move into R3 of a constant or of a  *)
(* register (the slot being the constant field of the instruction, 0 for a *)
(* register), the call of the tail call helper at instruction index 3 or   *)
(* later.  The programs kept are as they were.                             *)
(***************************************************************************)
C1_ExactlyReachableKept ==
    (Pruned /\ runs = 1) =>
        /\ DOMAIN spec.Programs =
              Entrypoints \cup {k \in Candidates : SlotOf(k) \in Reachable(FirstScanned, FALSE)}
        /\ \A k \in DOMAIN spec.Programs : spec.Programs[k] = InProgs[k]
        /\ ~DuplicateSlot

\* a candidate reached only through another candidate is kept, and a
\* candidate that refers to a kept one (or to itself) is gone
C1_Witness ==
    /\ Pruned /\ runs = 1
    /\ \E k \in Candidates :
          /\ k \in DOMAIN spec.Programs
          /\ \A e \in Entrypoints :
                SlotOf(k) \notin Targets(InProgs[e].Instructions, FirstScanned, FALSE)

\* a candidate that calls a kept candidate is deleted, being unreachable
C1_WitnessPruned ==
    /\ Pruned /\ runs = 1
    /\ \E k \in Candidates, j \in Candidates :
          /\ k \notin DOMAIN spec.Programs
          /\ j \in DOMAIN spec.Programs
          /\ SlotOf(j) \in Targets(InProgs[k].Instructions, FirstScanned, FALSE)

(***************************************************************************)
(* C2: a second removeUnreachableTailcalls on the result of a successful   *)
(* one succeeds too and removes no program.                                *)
(***************************************************************************)
C2_Idempotent ==
    runs >= 2 =>
        /\ err \notin PruneErrors
        /\ Pruned => spec.Programs = [k \in firstRun |-> InProgs[k]]

\* the second run has ended on a bundle from which the first removed a program
C2_Witness ==
    /\ Pruned /\ runs = 2
    /\ firstRun # DOMAIN InProgs
    /\ firstRun \cap Candidates # {}

(***************************************************************************)
(* C3: with two candidates of the calls map (id 2) in one slot, the slot   *)
(* written in decimal or in hexadecimal, removeUnreachableTailcalls        *)
(* returns the error "duplicate tail call index" in whatever order the     *)
(* programs are taken, and LoadCollectionSpec returns no spec.             *)
(***************************************************************************)
\* the section names 2/7 and 2/0x7 are both in the bundle
DecimalAndHex ==
    \E k1, k2 \in DOMAIN InProgs :
        /\ InProgs[k1].SectionName = <<"2", "/", "7">>
        /\ InProgs[k2].SectionName = <<"2", "/", "0", "x", "7">>

C3_DuplicateSlotRejected ==
    (DecimalAndHex \/ DuplicateSlot) =>
        /\ pc \in {"call", "partition", "failed"}
        /\ pc = "call" => stage = 0
        /\ pc = "failed" => (err = "duplicate tail call index" /\ ret = "nil")
        /\ ret # "spec"

\* the error is returned for 2/7 and 2/0x7
C3_Witness ==
    /\ DecimalAndHex
    /\ pc = "failed" /\ err = "duplicate tail call index" /\ ret = "nil"

(***************************************************************************)
(* C4 (as stated): when an entrypoint, or a candidate reachable from one,  *)
(* holds the three-instruction idiom into cilium_calls with a slot that no *)
(* candidate has, removeUnreachableTailcalls returns an error.             *)
(***************************************************************************)
\* a program that the pruning reaches holds a call site to a slot without candidate
Dangling(first) ==
    LET slots == SlotsOfCandidates
        reached == Reachable(first, TRUE)
    IN  \E k \in DOMAIN InProgs :
           /\ k \notin DOMAIN slots \/ slots[k] \in reached
           /\ ~(Targets(InProgs[k].Instructions, first, TRUE) \subseteq Range(slots))

C4_AsStated == Dangling(2) => (InPrune \/ (pc = "call" /\ stage = 0))

(***************************************************************************)
(* C4 (amended): when an entrypoint, or a candidate reachable from one,    *)
(* holds the idiom into cilium_calls with its call at instruction index 3  *)
(* or later and a slot that no candidate has, removeUnreachableTailcalls   *)
(* returns an error: the pruning never ends successfully.                  *)
(***************************************************************************)
\* (written "rejected, or there is no such call": the same implication)
C4_UnknownSlotRejected ==
    \/ /\ InPrune \/ (pc = "call" /\ stage = 0)
       /\ ret # "spec"
    \/ ~Dangling(FirstScanned)

\* the unknown slot is met in a candidate that only the fixed point reaches
C4_Witness ==
    /\ pc = "failed" /\ err = "tail call to unknown index"
    /\ ~DuplicateSlot
    /\ \A e \in Entrypoints :
          Targets(InProgs[e].Instructions, FirstScanned, TRUE) \subseteq CandidateSlots
    /\ Dangling(FirstScanned)

(***************************************************************************)
(* The legacy id of a map, decoded from the trailer the parser returned    *)
(* (0: no trailer, or none of full length).                                *)
(***************************************************************************)
LegacyId(m) ==
    IF Len(input.Maps[m].Extra) >= TailSize
    THEN DecU32(input.Maps[m].Extra, 0, input.ByteOrder)
    ELSE 0

StepIndex(f) == CHOOSE i \in 1..Len(Steps) : Steps[i] = f
\* the step f of LoadCollectionSpec has returned nil
Succeeded(f) ==
    \/ stage > StepIndex(f)
    \/ stage = StepIndex(f) /\ pc \in {"call", "done"}

\* pruning and translation have both succeeded
Normalized == Succeeded("removeUnreachableTailcalls") /\ Succeeded("iproute2Compat")

\* the section name follows <id>/<slot>
Assigned(n) == ~Sscanf(spec.Programs[n].SectionName).err

\* the places of the entry (slot, n) in the contents of map m
EntriesOf(m, slot, n) ==
    {i \in 1..Len(spec.Maps[m].Contents) :
        spec.Maps[m].Contents[i] = [Key |-> slot, Value |-> n]}

\* the places of any entry of program n in the contents of map m
EntriesFor(m, n) ==
    {i \in 1..Len(spec.Maps[m].Contents) : spec.Maps[m].Contents[i].Value = n}

(***************************************************************************)
(* C5: once pruning and translation have succeeded, every entry of a map's *)
(* contents names a program that is still in the program set (none names a *)
(* pruned candidate), and every remaining program named <id>/<slot> has    *)
(* exactly one entry, (slot, its name), in the map of that legacy id.      *)
(***************************************************************************)
C5_ContentsMatchPrograms ==
    Normalized =>
        /\ \A m \in DOMAIN spec.Maps : \A i \in 1..Len(spec.Maps[m].Contents) :
              spec.Maps[m].Contents[i].Value \in DOMAIN spec.Programs
        /\ \A n \in DOMAIN spec.Programs :
              Assigned(n) =>
                 LET r == Sscanf(spec.Programs[n].SectionName)
                 IN  /\ \A m \in DOMAIN spec.Maps :
                            Cardinality(EntriesFor(m, n)) =
                                IF LegacyId(m) = r.id THEN 1 ELSE 0
                     /\ \E h \in DOMAIN spec.Maps :
                            LegacyId(h) = r.id /\ Cardinality(EntriesOf(h, r.slot, n)) = 1

\* a candidate was pruned and has no entry, another was kept and has one
C5_Witness ==
    /\ Normalized
    /\ \E k \in Candidates : k \notin DOMAIN spec.Programs
    /\ \E k \in Candidates :
          /\ k \in DOMAIN spec.Programs
          /\ EntriesOf(Calls, SlotOf(k), k) # {}

(***************************************************************************)
(* C6 (as stated): once normalisation has succeeded no map's contents hold *)
(* two entries of one slot, and a bundle that assigns two programs to one  *)
(* slot of one map is rejected.                                            *)
(***************************************************************************)
NoSlotTwice(m) ==
    \A i, j \in 1..Len(spec.Maps[m].Contents) :
        spec.Maps[m].Contents[i].Key = spec.Maps[m].Contents[j].Key => i = j

\* two programs of the bundle are named for one slot of the map of legacy id `id`
SameSlot(id) ==
    LET parsed == [k \in DOMAIN InProgs |-> Sscanf(InProgs[k].SectionName)]
    IN  \E k1, k2 \in DOMAIN InProgs :
           /\ k1 # k2
           /\ ~parsed[k1].err /\ ~parsed[k2].err
           /\ parsed[k1].id = id
           /\ parsed[k2].id = id
           /\ parsed[k1].slot = parsed[k2].slot

C6_AsStated ==
    /\ Normalized => \A m \in DOMAIN spec.Maps : NoSlotTwice(m)
    /\ (\E m \in DOMAIN input.Maps : LegacyId(m) # 0 /\ SameSlot(LegacyId(m))) => ret # "spec"

(***************************************************************************)
(* C6 (amended): once normalisation has succeeded the contents of the map  *)
(* of the reserved legacy id 2 hold no two entries of one slot, and a      *)
(* bundle that names two programs for one slot of that map is rejected     *)
(* with an error during normalisation.  (For a map of another legacy id    *)
(* the translator appends entries of one slot without an error.)           *)
(***************************************************************************)
C6_CallsMapSlotsUnique ==
    /\ Normalized =>
          \A m \in DOMAIN spec.Maps : LegacyId(m) = cilium_calls_map => NoSlotTwice(m)
    /\ (ret # "spec" /\ ~Normalized) \/ ~SameSlot(cilium_calls_map)

\* the calls map has received the entries of two slots
C6_Witness ==
    /\ Normalized
    /\ Len(spec.Maps[Calls].Contents) >= 2
    /\ LegacyId(Calls) = cilium_calls_map

(***************************************************************************)
(* C7: in the slot pass of iproute2Compat, a program named <id>/<slot>     *)
(* whose id no map carries in its trailer (id 0 is carried by no map)      *)
(* makes the function return an error; otherwise the one entry (slot,      *)
(* program key) is appended to the contents of the one map of that id and  *)
(* the contents of every other map stay.  A program not so named changes   *)
(* nothing.                                                                *)
(***************************************************************************)
C7_Step ==
    \A n \in todo \ todo' :
        LET r == Sscanf(spec.Programs[n].SectionName)
            holders == {m \in DOMAIN input.Maps : r.id # 0 /\ LegacyId(m) = r.id}
        IN  IF r.err THEN spec' = spec /\ pc' # "failed"
            ELSE IF holders = {}
            THEN /\ pc' = "failed" /\ ret' = "nil"
                 /\ err' = "no map with iproute2 map .id"
                 /\ spec' = spec
            ELSE /\ pc' # "failed"
                 /\ \E m \in holders :
                       /\ holders = {m}
                       /\ spec'.Maps[m].Contents =
                             Append(spec.Maps[m].Contents, [Key |-> r.slot, Value |-> n])
                       /\ \A o \in DOMAIN spec.Maps \ {m} : spec'.Maps[o] = spec.Maps[o]
                       /\ DOMAIN spec'.Maps = DOMAIN spec.Maps
                 /\ spec'.Programs = spec.Programs

C7_SlotAssignment == [][pc = "slots" => C7_Step]_vars

\* the program named 3/12 (or 3/0xc, 3/014) has its entry in the map of id 3
C7_Witness ==
    /\ Succeeded("iproute2Compat")
    /\ \E m \in DOMAIN spec.Maps : \E n \in DOMAIN spec.Programs :
          /\ LegacyId(m) = 3
          /\ EntriesOf(m, 12, n) # {}
          /\ Len(spec.Maps[Calls].Contents) = 0

(***************************************************************************)
(* C8: when classifyProgramTypes returns nil no program is of the type     *)
(* UnspecifiedProgram; it returns an error exactly when no program had a   *)
(* type from the parser and no program's name is in the table of known     *)
(* entrypoint names.                                                       *)
(***************************************************************************)
KnownNames == KnownXDP \cup KnownSchedCLS

C8_Classified ==
    stage >= StepIndex("classifyProgramTypes") =>
        /\ pc # "failed" =>
              \A n \in DOMAIN spec.Programs : spec.Programs[n].Type # UnspecifiedProgram
        /\ pc = "failed" <=>
              \A n \in DOMAIN spec.Programs :
                  InProgs[n].Type = UnspecifiedProgram /\ n \notin KnownNames

\* no program had a type, a known name gave one to a program of another name
C8_Witness ==
    /\ stage >= StepIndex("classifyProgramTypes")
    /\ pc # "failed"
    /\ \A n \in DOMAIN spec.Programs : InProgs[n].Type = UnspecifiedProgram
    /\ \E n \in DOMAIN spec.Programs : n \notin KnownNames

(***************************************************************************)
(* LoadCollection: the objects it works on.                                *)
(***************************************************************************)
Callers == 1 .. NumCalls

\* a nil *ebpf.CollectionSpec, and the reference of the caller's spec
NilRef == 0
InputRef == 1

\* ebpf.PinType: no pinning, ebpf.PinByName, and the CILIUM_PIN_REPLACE marker
PinNone == "PinNone"
PinByName == "PinByName"
PinReplace == "PinReplace"

\* config.ConstantPrefix and config.Section
ConstantPrefix == "__config_"
Section == ".rodata.config"

ErrMapIncompatible == "map spec is incompatible with existing map"

LoadMap(name, pinning, size) == [Name |-> name, Pinning |-> pinning, ValueSize |-> size]
Variable(section, size, value) == [MapName |-> section, Size |-> size, Value |-> value]
\* a value of a field of the constants object
Val(size, v) == [Size |-> size, v |-> v]
CollectionSpec(mapspecs, variables, progs) ==
    [Maps |-> mapspecs, Variables |-> variables, Programs |-> progs]
\* a map of the kernel; Creator is the call that created it, 0 if it was
\* there before any call
Pinned(size, creator) == [ValueSize |-> size, Creator |-> creator]
\* no *ebpf.Collection
NoColl == [loaded |-> FALSE, Maps |-> Empty]

\* the caller's options; IsNil is a nil *CollectionOptions
Options(renames, constants, pinPath) ==
    [IsNil |-> FALSE, MapRenames |-> renames, Constants |-> constants,
     PinPath |-> pinPath]
NilOptions ==
    [IsNil |-> TRUE, MapRenames |-> Empty,
     Constants |-> [kind |-> "nil", fields |-> Empty], PinPath |-> ""]
\* opts = &CollectionOptions{}
OptsOf(o) ==
    IF o.IsNil
    THEN Options(Empty, [kind |-> "nil", fields |-> Empty], "")
    ELSE o

\* the values of opts.Constants: nil, a pointer to a config struct (its
\* fields by their config tag), anything else
NoConstants == [kind |-> "nil", fields |-> Empty]
Struct(f) == [kind |-> "struct", fields |-> f]
NotAStruct == [kind |-> "int", fields |-> Empty]

(***************************************************************************)
(* The specs, pin filesystems and options of the calls.                    *)
(***************************************************************************)
LoadMaps(callsPin, policyPin) ==
    [k \in {"cilium_calls", "cilium_policy", "scratch"} |->
        CASE k = "cilium_calls" -> LoadMap(k, callsPin, 4)
          [] k = "cilium_policy" -> LoadMap(k, policyPin, 8)
          [] OTHER -> LoadMap(k, PinNone, 4)]

LoadVariables ==
    [n \in {"__config_a", "__config_c", "__config_b", "counter"} |->
        CASE n = "__config_b" -> Variable(".data", 4, 0)
          [] n = "counter" -> Variable(Section, 4, 5)
          [] OTHER -> Variable(Section, 4, 0)]

LoadSpecs ==
    {CollectionSpec(LoadMaps(p[1], p[2]), LoadVariables, {"cil_from_container"}) :
        p \in {<<PinByName, PinReplace>>, <<PinByName, PinByName>>,
               <<PinNone, PinReplace>>}}

\* what is pinned before the first call: nothing, or a map of the shape of
\* cilium_calls under its new name and maps of another shape under the names
\* cilium_calls and cilium_policy
PinFamilies ==
    { Empty,
      [n \in {"cilium_calls", "cilium_calls_00042", "cilium_policy"} |->
          IF n = "cilium_calls" THEN Pinned(8, 0) ELSE Pinned(4, 0)] }

BpfFS == "/sys/fs/bpf"
Renames1 == [n \in {"cilium_calls"} |-> "cilium_calls_00042"]
\* a caller that gives cilium_policy the name the first caller gives cilium_calls
Renames2 == [n \in {"cilium_policy"} |-> "cilium_calls_00042"]
RenamesGhost ==
    [n \in {"cilium_calls", "cilium_ghost"} |->
        IF n = "cilium_calls" THEN "cilium_calls_00042" ELSE "cilium_ghost_00042"]
Fields(va, other, vo) ==
    [f \in {"a", other} |-> IF f = "a" THEN va ELSE vo]

FirstOptions ==
    { NilOptions,
      Options(Empty, NoConstants, BpfFS),
      Options(Renames1, Struct(Fields(Val(4, 1), "c", Val(4, 2))), BpfFS),
      Options(RenamesGhost, NoConstants, BpfFS),
      Options(Empty, Struct(Fields(Val(4, 1), "zz", Val(4, 1))), BpfFS),
      Options(Empty, Struct(Fields(Val(4, 1), "b", Val(4, 1))), BpfFS),
      Options(Empty, Struct(Fields(Val(4, 1), "c", Val(8, 1))), BpfFS),
      Options(Empty, NotAStruct, BpfFS) }

LaterOptions ==
    { Options(Renames2, Struct(Fields(Val(4, 3), "a", Val(4, 3))), BpfFS),
      Options(Empty, NoConstants, BpfFS) }

Args(options) == {[spec |-> InputRef, opts |-> o, assign |-> FALSE] : o \in options}
\* the first call is also made without a spec, and through LoadAndAssign
FirstArgs ==
    Args(FirstOptions) \cup
    { [spec |-> NilRef, opts |-> NilOptions, assign |-> FALSE],
      [spec |-> InputRef, opts |-> Options(Empty, NoConstants, BpfFS), assign |-> TRUE] }

\* the state of LoadCollectionSpec after it has returned a spec
Normalized_Done ==
    /\ spec = Bundle(Empty, Empty, "LittleEndian")
    /\ input = spec
    /\ pc = "done"
    /\ stage = Len(Steps)
    /\ err = NoErr
    /\ ret = "spec"
    /\ todo = {}
    /\ entrypoints = <<>>
    /\ nextEntry = 1
    /\ tailcalls = Empty
    /\ scanned = <<>>
    /\ runs = 1
    /\ firstRun = {}
    /\ maps = Empty

LoadInit ==
    /\ Normalized_Done
    /\ heap \in {<< cs >> : cs \in LoadSpecs}
    /\ bpffs \in PinFamilies
    /\ concurrent \in BOOLEAN
    /\ arg \in {f \in [Callers -> FirstArgs \cup Args(LaterOptions)] :
                  /\ f[1] \in FirstArgs
                  /\ \A c \in Callers \ {1} : f[c] \in Args(LaterOptions)
                  \* the callers after the second are given what it is given
                  /\ \A c \in Callers \ {1, 2} : f[c] = f[2]}
    /\ at = [c \in Callers |-> "idle"]
    /\ specRef = [c \in Callers |-> NilRef]
    /\ pending = [c \in Callers |-> {}]
    /\ toReplace = [c \in Callers |-> {}]
    /\ attempts = [c \in Callers |-> 0]
    /\ coll = [c \in Callers |-> NoColl]
    /\ pins = [c \in Callers |-> Empty]
    /\ loadErr = [c \in Callers |-> NoErr]
    /\ to = [c \in Callers |-> Empty]

(***************************************************************************)
(* LoadCollection, call c.                                                 *)
(***************************************************************************)
\* return nil, nil, err
ReturnErr(c, e) ==
    /\ at' = [at EXCEPT ![c] = "returned"]
    /\ loadErr' = [loadErr EXCEPT ![c] = e]

\* The call begins; a nil spec is refused.
LoadCollection_Call(c) ==
    /\ at[c] = "idle"
    /\ concurrent \/ \A d \in Callers \ {c} :
                        \/ at[d] \in {"idle", "assigned", "committed"}
                        \/ at[d] = "returned" /\ (loadErr[d] # NoErr \/ ~arg[d].assign)
    /\ IF arg[c].spec = NilRef
       THEN ReturnErr(c, "can't load nil CollectionSpec")
       ELSE /\ at' = [at EXCEPT ![c] = "copy"]
            /\ UNCHANGED loadErr
    /\ UNCHANGED << heap, bpffs, concurrent, arg, specRef, pending, toReplace, attempts,
                    coll, pins,
                    to >>
    /\ UNCHANGED nvars

\* spec.Copy(): a new object with the contents of the one at r
SpecCopy(h, r) == [heap |-> Append(h, h[r]), ref |-> Len(h) + 1]

\* no copy: the call goes on with the caller's spec
LoadCollection_Copy_Skipped(c) ==
    /\ at[c] = "copy"
    /\ specRef' = [specRef EXCEPT ![c] = arg[c].spec]
    /\ pending' = [pending EXCEPT ![c] = DOMAIN OptsOf(arg[c].opts).MapRenames]
    /\ at' = [at EXCEPT ![c] = "renameMaps"]
    /\ UNCHANGED << heap, bpffs, concurrent, arg, toReplace, attempts, coll, pins,
                    loadErr,
                    to >>
    /\ UNCHANGED nvars

\* spec = spec.Copy()
LoadCollection_Copy(c) ==
    /\ at[c] = "copy"
    /\ LET cp == SpecCopy(heap, arg[c].spec)
       IN  /\ heap' = cp.heap
           /\ specRef' = [specRef EXCEPT ![c] = cp.ref]
    /\ pending' = [pending EXCEPT ![c] = DOMAIN OptsOf(arg[c].opts).MapRenames]
    /\ at' = [at EXCEPT ![c] = "renameMaps"]
    /\ UNCHANGED << bpffs, concurrent, arg, toReplace, attempts, coll, pins, loadErr,
                    to >>
    /\ UNCHANGED nvars

\* a rename of a map that is not there is passed over
RenameMaps_Entry_Lenient(c) ==
    /\ at[c] = "renameMaps"
    /\ \E name \in pending[c] :
          /\ pending' = [pending EXCEPT ![c] = @ \ {name}]
          /\ IF name \notin DOMAIN heap[specRef[c]].Maps
             THEN UNCHANGED heap
             ELSE heap' = [heap EXCEPT ![specRef[c]].Maps[name].Name =
                                  OptsOf(arg[c].opts).MapRenames[name]]
          /\ UNCHANGED << at, loadErr >>
    /\ UNCHANGED << bpffs, concurrent, arg, specRef, toReplace, attempts, coll, pins,
                    to >>
    /\ UNCHANGED nvars

\* renameMaps: one turn of the loop over renames
RenameMaps_Entry(c) ==
    /\ at[c] = "renameMaps"
    /\ \E name \in pending[c] :
          /\ pending' = [pending EXCEPT ![c] = @ \ {name}]
          /\ IF name \notin DOMAIN heap[specRef[c]].Maps
             THEN /\ ReturnErr(c, "unknown map: can't rename")
                  /\ UNCHANGED heap
             ELSE /\ heap' = [heap EXCEPT ![specRef[c]].Maps[name].Name =
                                  OptsOf(arg[c].opts).MapRenames[name]]
                  /\ UNCHANGED << at, loadErr >>
    /\ UNCHANGED << bpffs, concurrent, arg, specRef, toReplace, attempts, coll, pins,
                    to >>
    /\ UNCHANGED nvars

\* renameMaps returns nil
RenameMaps_Return(c) ==
    /\ at[c] = "renameMaps"
    /\ pending[c] = {}
    /\ at' = [at EXCEPT ![c] = "applyConstants"]
    /\ UNCHANGED << heap, bpffs, concurrent, arg, specRef, pending, toReplace, attempts,
                    coll, pins, loadErr,
                    to >>
    /\ UNCHANGED nvars

\* config.StructToMap: the fields of a config struct by their tag
StructToMap(obj) ==
    IF obj.kind = "struct"
    THEN [err |-> FALSE, constants |-> obj.fields]
    ELSE [err |-> TRUE, constants |-> Empty]

\* applyConstants is entered
ApplyConstants_Begin(c) ==
    /\ at[c] = "applyConstants"
    /\ LET obj == OptsOf(arg[c].opts).Constants
       IN  IF obj.kind = "nil"
           THEN /\ at' = [at EXCEPT ![c] = "consumePinReplace"]
                /\ UNCHANGED << pending, loadErr >>
           ELSE IF StructToMap(obj).err
           THEN /\ ReturnErr(c, "applying variable overrides: converting struct to map")
                /\ UNCHANGED pending
           ELSE /\ pending' = [pending EXCEPT ![c] = DOMAIN StructToMap(obj).constants]
                /\ at' = [at EXCEPT ![c] = "constants"]
                /\ UNCHANGED loadErr
    /\ UNCHANGED << heap, bpffs, concurrent, arg, specRef, toReplace, attempts, coll,
                    pins,
                    to >>
    /\ UNCHANGED nvars

ConstName(name) == ConstantPrefix \o name

\* a patcher that takes a variable of any section
InSection_Any(v) == TRUE

\* v.MapName() == config.Section
InSection(v) == v.MapName = Section

\* VariableSpec.Set: the value must have the size of the variable
VariableSet(v, value) ==
    IF value.Size # v.Size
    THEN [err |-> TRUE, v |-> v]
    ELSE [err |-> FALSE, v |-> [v EXCEPT !.Value = value.v]]

\* applyConstants: one turn of the loop over constants
ApplyConstants_Field(c) ==
    /\ at[c] = "constants"
    /\ \E name \in pending[c] :
          LET value == StructToMap(OptsOf(arg[c].opts).Constants).constants[name]
              constName == ConstName(name)
              variables == heap[specRef[c]].Variables
          IN  /\ pending' = [pending EXCEPT ![c] = @ \ {name}]
              /\ IF constName \notin DOMAIN variables
                 THEN /\ ReturnErr(c, "applying variable overrides: can't set non-existent Variable")
                      /\ UNCHANGED heap
                 ELSE IF ~InSection(variables[constName])
                 THEN /\ ReturnErr(c, "applying variable overrides: can only set Cilium config variables in section")
                      /\ UNCHANGED heap
                 ELSE IF VariableSet(variables[constName], value).err
                 THEN /\ ReturnErr(c, "applying variable overrides: setting Variable")
                      /\ UNCHANGED heap
                 ELSE /\ heap' = [heap EXCEPT ![specRef[c]].Variables[constName] =
                                      VariableSet(variables[constName], value).v]
                      /\ UNCHANGED << at, loadErr >>
    /\ UNCHANGED << bpffs, concurrent, arg, specRef, toReplace, attempts, coll, pins,
                    to >>
    /\ UNCHANGED nvars

\* applyConstants returns nil
ApplyConstants_Return(c) ==
    /\ at[c] = "constants"
    /\ pending[c] = {}
    /\ at' = [at EXCEPT ![c] = "consumePinReplace"]
    /\ UNCHANGED << heap, bpffs, concurrent, arg, specRef, pending, toReplace, attempts,
                    coll, pins, loadErr,
                    to >>
    /\ UNCHANGED nvars

\* consumePinReplace: the keys of the maps with the marker, and the spec
\* without it
ConsumePinReplace(cs) ==
    LET marked == {k \in DOMAIN cs.Maps : cs.Maps[k].Pinning = PinReplace}
    IN  [toReplace |-> marked,
         spec |-> [cs EXCEPT !.Maps =
                     [k \in DOMAIN cs.Maps |->
                         IF k \in marked
                         THEN [cs.Maps[k] EXCEPT !.Pinning = PinNone]
                         ELSE cs.Maps[k]]]]

\* the maps with the marker are recorded and the spec is left as it is
LoadCollection_ConsumePinReplace_Recorded(c) ==
    /\ at[c] = "consumePinReplace"
    /\ toReplace' = [toReplace EXCEPT ![c] = ConsumePinReplace(heap[specRef[c]]).toReplace]
    /\ at' = [at EXCEPT ![c] = "load"]
    /\ UNCHANGED << heap, bpffs, concurrent, arg, specRef, pending, attempts, coll, pins,
                    loadErr,
                    to >>
    /\ UNCHANGED nvars

\* toReplace := consumePinReplace(spec)
LoadCollection_ConsumePinReplace(c) ==
    /\ at[c] = "consumePinReplace"
    /\ LET r == ConsumePinReplace(heap[specRef[c]])
       IN  /\ heap' = [heap EXCEPT ![specRef[c]] = r.spec]
           /\ toReplace' = [toReplace EXCEPT ![c] = r.toReplace]
    /\ at' = [at EXCEPT ![c] = "load"]
    /\ UNCHANGED << bpffs, concurrent, arg, specRef, pending, attempts, coll, pins,
                    loadErr,
                    to >>
    /\ UNCHANGED nvars

\* the maps pinned by name whose pin holds a map of another shape
Incompatible(cs, fs) ==
    {k \in DOMAIN cs.Maps :
        /\ cs.Maps[k].Pinning = PinByName
        /\ cs.Maps[k].Name \in DOMAIN fs
        /\ fs[cs.Maps[k].Name].ValueSize # cs.Maps[k].ValueSize}

\* ebpf.NewCollectionWithOptions called by c: the outcomes it can have.  A map
\* pinned by name is taken from its pin, or created and pinned; every other
\* map is created.  The load can fail for reasons of its own (the verifier).
NewCollectionWithOptions(cs, o, fs, c) ==
    LET byName == {k \in DOMAIN cs.Maps : cs.Maps[k].Pinning = PinByName}
        failure(e) == [err |-> e, coll |-> NoColl, bpffs |-> fs]
        created ==
            [k \in DOMAIN cs.Maps |->
                IF k \in byName /\ cs.Maps[k].Name \in DOMAIN fs
                THEN fs[cs.Maps[k].Name]
                ELSE Pinned(cs.Maps[k].ValueSize, c)]
        names == {cs.Maps[k].Name : k \in byName}
        key(n) == CHOOSE k \in byName : cs.Maps[k].Name = n
        pinned ==
            [n \in DOMAIN fs \cup names |->
                IF n \in DOMAIN fs THEN fs[n] ELSE created[key(n)]]
    IN  {failure("program load failed")} \cup
        ( IF \E k \in DOMAIN cs.Maps : cs.Maps[k].Pinning = PinReplace
          THEN {failure("pin type not supported")}
          ELSE IF byName # {} /\ o.PinPath = ""
          THEN {failure("pin by name: missing Options.PinPath")}
          ELSE IF Incompatible(cs, fs) # {}
          THEN {failure(ErrMapIncompatible)}
          ELSE {[err |-> NoErr, coll |-> [loaded |-> TRUE, Maps |-> created],
                 bpffs |-> pinned]} )

\* coll, err := ebpf.NewCollectionWithOptions(spec, opts.CollectionOptions)
LoadCollection_Load(c) ==
    /\ at[c] = "load"
    /\ attempts' = [attempts EXCEPT ![c] = @ + 1]
    /\ \E r \in NewCollectionWithOptions(heap[specRef[c]], OptsOf(arg[c].opts), bpffs, c) :
          /\ bpffs' = r.bpffs
          /\ coll' = [coll EXCEPT ![c] = r.coll]
          /\ IF r.err = ErrMapIncompatible
             THEN /\ at' = [at EXCEPT ![c] = "incompatibleMaps"]
                  /\ loadErr' = [loadErr EXCEPT ![c] = r.err]
             ELSE IF r.err # NoErr
             THEN ReturnErr(c, r.err)
             ELSE /\ at' = [at EXCEPT ![c] = "mapsToReplace"]
                  /\ UNCHANGED loadErr
    /\ UNCHANGED << heap, concurrent, arg, specRef, pending, toReplace, pins,
                    to >>
    /\ UNCHANGED nvars

\* incompatibleMaps: the keys of the incompatible maps, and the spec with
\* their pinning flags removed
IncompatibleMaps(cs, fs) ==
    [incompatible |-> Incompatible(cs, fs),
     spec |-> [cs EXCEPT !.Maps =
                 [k \in DOMAIN cs.Maps |->
                     IF k \in Incompatible(cs, fs)
                     THEN [cs.Maps[k] EXCEPT !.Pinning = PinNone]
                     ELSE cs.Maps[k]]]]

\* the incompatible maps take the place of the maps with the marker
LoadCollection_Incompatible_Only(c) ==
    /\ at[c] = "incompatibleMaps"
    /\ LET r == IncompatibleMaps(heap[specRef[c]], bpffs)
       IN  \E ok \in BOOLEAN :
              IF ~ok \/ r.incompatible = {}
              THEN /\ ReturnErr(c, "finding incompatible maps")
                   /\ UNCHANGED << heap, toReplace >>
              ELSE /\ heap' = [heap EXCEPT ![specRef[c]] = r.spec]
                   /\ toReplace' = [toReplace EXCEPT ![c] = r.incompatible]
                   /\ at' = [at EXCEPT ![c] = "retry"]
                   /\ loadErr' = [loadErr EXCEPT ![c] = NoErr]
    /\ UNCHANGED << bpffs, concurrent, arg, specRef, pending, attempts, coll, pins,
                    to >>
    /\ UNCHANGED nvars

\* incompatible, err = incompatibleMaps(spec, opts.CollectionOptions); reading
\* a pin can fail, and finding no incompatible map is an error
LoadCollection_Incompatible(c) ==
    /\ at[c] = "incompatibleMaps"
    /\ LET r == IncompatibleMaps(heap[specRef[c]], bpffs)
       IN  \E ok \in BOOLEAN :
              IF ~ok \/ r.incompatible = {}
              THEN /\ ReturnErr(c, "finding incompatible maps")
                   /\ UNCHANGED << heap, toReplace >>
              ELSE /\ heap' = [heap EXCEPT ![specRef[c]] = r.spec]
                   /\ toReplace' = [toReplace EXCEPT ![c] = @ \cup r.incompatible]
                   /\ at' = [at EXCEPT ![c] = "retry"]
                   /\ loadErr' = [loadErr EXCEPT ![c] = NoErr]
    /\ UNCHANGED << bpffs, concurrent, arg, specRef, pending, attempts, coll, pins,
                    to >>
    /\ UNCHANGED nvars

\* a retry that is made again for as long as a pin is found incompatible
LoadCollection_Retry_Again(c) ==
    /\ at[c] = "retry"
    /\ attempts' = [attempts EXCEPT ![c] = @ + 1]
    /\ \E r \in NewCollectionWithOptions(heap[specRef[c]], OptsOf(arg[c].opts), bpffs, c) :
          /\ bpffs' = r.bpffs
          /\ coll' = [coll EXCEPT ![c] = r.coll]
          /\ IF r.err = ErrMapIncompatible
             THEN /\ at' = [at EXCEPT ![c] = "incompatibleMaps"]
                  /\ loadErr' = [loadErr EXCEPT ![c] = r.err]
             ELSE IF r.err # NoErr
             THEN ReturnErr(c, r.err)
             ELSE /\ at' = [at EXCEPT ![c] = "mapsToReplace"]
                  /\ UNCHANGED loadErr
    /\ UNCHANGED << heap, concurrent, arg, specRef, pending, toReplace, pins,
                    to >>
    /\ UNCHANGED nvars

\* coll, err = ebpf.NewCollectionWithOptions(spec, opts.CollectionOptions),
\* the retry
LoadCollection_Retry(c) ==
    /\ at[c] = "retry"
    /\ attempts' = [attempts EXCEPT ![c] = @ + 1]
    /\ \E r \in NewCollectionWithOptions(heap[specRef[c]], OptsOf(arg[c].opts), bpffs, c) :
          /\ bpffs' = r.bpffs
          /\ coll' = [coll EXCEPT ![c] = r.coll]
          /\ IF r.err # NoErr
             THEN ReturnErr(c, r.err)
             ELSE /\ at' = [at EXCEPT ![c] = "mapsToReplace"]
                  /\ UNCHANGED loadErr
    /\ UNCHANGED << heap, concurrent, arg, specRef, pending, toReplace, pins,
                    to >>
    /\ UNCHANGED nvars

\* mapsToReplace: the map of the Collection for every key of toReplace, by
\* the name of its pin; without a pin path there is nowhere to pin
MapsToReplace(keys, cs, cl, o) ==
    IF keys # {} /\ o.PinPath = ""
    THEN [err |-> TRUE, pins |-> Empty]
    ELSE [err |-> FALSE,
          pins |-> [n \in {cs.Maps[k].Name : k \in keys} |->
                      cl.Maps[CHOOSE k \in keys : cs.Maps[k].Name = n]]]

\* a return that writes the pins itself
LoadCollection_MapsToReplace_Pinned(c) ==
    /\ at[c] = "mapsToReplace"
    /\ LET r == MapsToReplace(toReplace[c], heap[specRef[c]], coll[c], OptsOf(arg[c].opts))
       IN  IF r.err
           THEN /\ ReturnErr(c, "collecting map pins to replace")
                /\ UNCHANGED << pins, bpffs >>
           ELSE /\ pins' = [pins EXCEPT ![c] = r.pins]
                /\ bpffs' = [n \in DOMAIN bpffs \cup DOMAIN r.pins |->
                                IF n \in DOMAIN r.pins THEN r.pins[n] ELSE bpffs[n]]
                /\ at' = [at EXCEPT ![c] = "returned"]
                /\ UNCHANGED loadErr
    /\ UNCHANGED << heap, concurrent, arg, specRef, pending, toReplace, attempts, coll,
                    to >>
    /\ UNCHANGED nvars

\* pins, err := mapsToReplace(toReplace, spec, coll, opts.CollectionOptions),
\* and the return of coll and commit
LoadCollection_MapsToReplace(c) ==
    /\ at[c] = "mapsToReplace"
    /\ LET r == MapsToReplace(toReplace[c], heap[specRef[c]], coll[c], OptsOf(arg[c].opts))
       IN  IF r.err
           THEN /\ ReturnErr(c, "collecting map pins to replace")
                /\ UNCHANGED pins
           ELSE /\ pins' = [pins EXCEPT ![c] = r.pins]
                /\ at' = [at EXCEPT ![c] = "returned"]
                /\ UNCHANGED loadErr
    /\ UNCHANGED << heap, bpffs, concurrent, arg, specRef, pending, toReplace, attempts,
                    coll,
                    to >>
    /\ UNCHANGED nvars

\* commitMapPins: every pin is written, over the pin that is there
CommitMapPins(fs, ps) ==
    [n \in DOMAIN fs \cup DOMAIN ps |-> IF n \in DOMAIN ps THEN ps[n] ELSE fs[n]]

\* the map fields the object to of a caller of LoadAndAssign can have, by the
\* name in their ebpf tag
AssignFields ==
    { {"cilium_calls"}, {"cilium_calls", "cilium_policy", "scratch"}, {"cilium_ghost"} }

\* Collection.Assign: the maps the fields of to name are moved from the
\* Collection into to; a field that names no map of the Collection is an
\* error, and nothing is moved
Assign(cl, fields) ==
    IF fields \subseteq DOMAIN cl.Maps
    THEN [err |-> FALSE,
          coll |-> [cl EXCEPT !.Maps = [k \in DOMAIN cl.Maps \ fields |-> cl.Maps[k]]],
          to |-> [k \in fields |-> cl.Maps[k]]]
    ELSE [err |-> TRUE, coll |-> cl, to |-> Empty]

\* LoadAndAssign: coll.Assign(to) after LoadCollection has returned coll.  The
\* Collection is not closed when Assign fails.
LoadAndAssign_Assign(c) ==
    /\ at[c] = "returned"
    /\ loadErr[c] = NoErr
    /\ arg[c].assign
    /\ \E fields \in AssignFields :
          LET r == Assign(coll[c], fields)
          IN  IF r.err
              THEN /\ ReturnErr(c, "assigning eBPF objects")
                   /\ UNCHANGED << coll, to >>
              ELSE /\ at' = [at EXCEPT ![c] = "assigned"]
                   /\ coll' = [coll EXCEPT ![c] = r.coll]
                   /\ to' = [to EXCEPT ![c] = r.to]
                   /\ UNCHANGED loadErr
    /\ UNCHANGED << heap, bpffs, concurrent, arg, specRef, pending, toReplace, attempts,
                    pins >>
    /\ UNCHANGED nvars

\* a commit function that looks the maps up in the Collection when it is
\* invoked
Commit_Late(c) ==
    /\ IF arg[c].assign THEN at[c] = "assigned" ELSE at[c] = "returned"
    /\ loadErr[c] = NoErr
    /\ bpffs' = CommitMapPins(bpffs,
                    [n \in {m \in DOMAIN pins[c] :
                               \E k \in toReplace[c] \cap DOMAIN coll[c].Maps :
                                  heap[specRef[c]].Maps[k].Name = m} |-> pins[c][n]])
    /\ at' = [at EXCEPT ![c] = "committed"]
    /\ UNCHANGED << heap, concurrent, arg, specRef, pending, toReplace, attempts, coll,
                    pins, loadErr, to >>
    /\ UNCHANGED nvars

\* the caller invokes the commit function it was returned, by LoadCollection
\* or by LoadAndAssign
Commit(c) ==
    /\ IF arg[c].assign THEN at[c] = "assigned" ELSE at[c] = "returned"
    /\ loadErr[c] = NoErr
    /\ bpffs' = CommitMapPins(bpffs, pins[c])
    /\ at' = [at EXCEPT ![c] = "committed"]
    /\ UNCHANGED << heap, concurrent, arg, specRef, pending, toReplace, attempts, coll,
                    pins, loadErr, to >>
    /\ UNCHANGED nvars

LoadNext ==
    \/ \E c \in Callers : LoadCollection_Call(c)
    \/ \E c \in Callers : LoadCollection_Copy(c)
    \/ \E c \in Callers : RenameMaps_Entry(c)
    \/ \E c \in Callers : RenameMaps_Return(c)
    \/ \E c \in Callers : ApplyConstants_Begin(c)
    \/ \E c \in Callers : ApplyConstants_Field(c)
    \/ \E c \in Callers : ApplyConstants_Return(c)
    \/ \E c \in Callers : LoadCollection_ConsumePinReplace(c)
    \/ \E c \in Callers : LoadCollection_Load(c)
    \/ \E c \in Callers : LoadCollection_Incompatible(c)
    \/ \E c \in Callers : LoadCollection_Retry(c)
    \/ \E c \in Callers : LoadCollection_MapsToReplace(c)
    \/ \E c \in Callers : LoadAndAssign_Assign(c)
    \/ \E c \in Callers : Commit(c)

LoadSpec == LoadInit /\ [][LoadNext]_vars

(***************************************************************************)
(* Claims about LoadCollection, checked under LoadSpec.                    *)
(***************************************************************************)
\* the fields of the constants object of call c
FieldsOf(c) == OptsOf(arg[c].opts).Constants.fields

\* the variable a field names is there, in the reserved section
Settable(variables, f) ==
    /\ (ConstantPrefix \o f) \in DOMAIN variables
    /\ variables[ConstantPrefix \o f].MapName = Section

\* A step of call c in applyConstants does what the claim says of it.
C9_Step(c) ==
    LET before == heap[specRef[c]]
        after == heap'[specRef[c]]
        taken == pending[c] \ pending'[c]
    IN  /\ ( /\ at[c] = "applyConstants"
             /\ at'[c] # at[c]
             /\ OptsOf(arg[c].opts).Constants = NoConstants )
           => /\ heap' = heap
              /\ loadErr'[c] = NoErr
              /\ at'[c] = "consumePinReplace"
        /\ at[c] = "constants" /\ taken # {}
           => \A f \in taken :
                 /\ ~Settable(before.Variables, f)
                    => /\ loadErr'[c] # NoErr
                       /\ at'[c] = "returned"
                       /\ heap' = heap
                 /\ DOMAIN after.Variables = DOMAIN before.Variables
                 /\ \A v \in DOMAIN before.Variables \ {ConstantPrefix \o f} :
                       after.Variables[v] = before.Variables[v]
                 /\ after.Maps = before.Maps
                 /\ after.Programs = before.Programs
        /\ at[c] = "constants" /\ at'[c] = "consumePinReplace"
           => \A f \in DOMAIN FieldsOf(c) :
                 /\ Settable(after.Variables, f)
                 /\ after.Variables[ConstantPrefix \o f].Value = FieldsOf(c)[f].v

\* C9: applyConstants with no constants value changes nothing and succeeds.
\* Otherwise, for each flattened field: if the variable named prefix+field
\* is not in the spec, or is there but not in the reserved configuration
\* section, applyConstants returns an error; after a successful return every
\* field's variable is in the reserved section and holds the supplied value;
\* a variable not named by the field taken is left as it was.
C9_ConstantsApplied == [][\A c \in Callers : C9_Step(c)]_vars

\* One call has returned from applyConstants with its field set and the other
\* variables as in the input, while the other call was refused for a field
\* without variable.
C9_Witness ==
    \E c, d \in Callers :
        /\ at[c] = "load"
        /\ DOMAIN FieldsOf(c) # {}
        /\ \A f \in DOMAIN FieldsOf(c) :
              heap[specRef[c]].Variables[ConstantPrefix \o f].Value = FieldsOf(c)[f].v
        /\ \E v \in DOMAIN heap[specRef[c]].Variables :
              /\ heap[specRef[c]].Variables[v] = heap[InputRef].Variables[v]
              /\ \A f \in DOMAIN FieldsOf(c) : v # ConstantPrefix \o f
        /\ at[d] = "returned"
        /\ loadErr[d] = "applying variable overrides: can't set non-existent Variable"

\* C10: whatever a call of LoadCollection does and however it ends, the
\* caller's input spec (map names, pinning flags, variable values, programs)
\* stays as it was before the call.
C10_InputUnchanged == [][heap'[InputRef] = heap[InputRef]]_vars

\* A call has renamed a map, set constants, stripped the pinning of the
\* incompatible maps, loaded at the second attempt and returned its
\* Collection: its spec differs from the input, which the next call is given.
C10_Witness ==
    \E c, d \in Callers :
        /\ at[c] \in {"returned", "committed"}
        /\ loadErr[c] = NoErr
        /\ attempts[c] = 2
        /\ specRef[c] # InputRef
        /\ \E k \in DOMAIN heap[InputRef].Maps :
              heap[specRef[c]].Maps[k].Name # heap[InputRef].Maps[k].Name
        /\ \E k \in toReplace[c] :
              /\ heap[InputRef].Maps[k].Pinning = PinByName
              /\ heap[specRef[c]].Maps[k].Pinning = PinNone
        /\ heap[specRef[c]].Variables # heap[InputRef].Variables
        /\ d # c
        /\ at[d] = "copy"
        /\ arg[d].spec = InputRef

\* A step of call c keeps to the one retry.
C11_Step(c) ==
    /\ attempts'[c] <= 2
    /\ attempts'[c] # attempts[c]
       => /\ attempts'[c] = attempts[c] + 1
          /\ \/ at[c] = "load" /\ attempts[c] = 0
             \/ at[c] = "retry" /\ attempts[c] = 1
    /\ at[c] = "load" /\ at'[c] # "load"
       => /\ attempts'[c] = 1
          /\ loadErr'[c] = ErrMapIncompatible <=> at'[c] = "incompatibleMaps"
          /\ loadErr'[c] \notin {NoErr, ErrMapIncompatible} <=> at'[c] = "returned"
          /\ loadErr'[c] = NoErr <=> at'[c] = "mapsToReplace"
    /\ at[c] = "incompatibleMaps" /\ at'[c] # "incompatibleMaps"
       => \/ at'[c] = "retry" /\ loadErr'[c] = NoErr
          \/ at'[c] = "returned" /\ loadErr'[c] # NoErr
    /\ at'[c] = "retry" /\ at[c] # "retry"
       => /\ at[c] = "incompatibleMaps"
          /\ loadErr[c] = ErrMapIncompatible
          /\ attempts[c] = 1
    /\ at[c] = "retry" /\ at'[c] # "retry"
       => /\ attempts'[c] = 2
          /\ loadErr'[c] # NoErr <=> at'[c] = "returned"
          /\ loadErr'[c] = NoErr <=> at'[c] = "mapsToReplace"
    /\ at[c] = "returned" => at'[c] \notin {"load", "incompatibleMaps", "retry"}

Marked == {k \in DOMAIN heap[InputRef].Maps : heap[InputRef].Maps[k].Pinning = PinReplace}

\* the maps pinned by name in the caller's spec that are without pinning flag
\* in the spec of call c
Stripped(c) ==
    {k \in DOMAIN heap[InputRef].Maps :
        /\ heap[InputRef].Maps[k].Pinning = PinByName
        /\ heap[specRef[c]].Maps[k].Pinning = PinNone}

\* A step of call c after an incompatible first attempt.
C12_Step(c) ==
    LET before == heap[specRef[c]]
        after == heap'[specRef[c]]
        found == Incompatible(before, bpffs)
    IN  /\ at[c] = "incompatibleMaps" /\ at'[c] = "retry"
           => /\ found # {}
              /\ \A k \in DOMAIN before.Maps :
                    after.Maps[k] =
                       IF k \in found
                       THEN [before.Maps[k] EXCEPT !.Pinning = PinNone]
                       ELSE before.Maps[k]
              /\ toReplace'[c] = Marked \cup found
              /\ Stripped(c)' = found
        /\ at[c] = "retry"
           => /\ toReplace[c] = Marked \cup Stripped(c)
              /\ Stripped(c) # {}
              /\ \A k \in toReplace[c] : before.Maps[k].Pinning = PinNone
              /\ after = before
        /\ at[c] = "mapsToReplace" /\ at'[c] = "returned" /\ loadErr'[c] = NoErr
           => /\ toReplace[c] = Marked \cup Stripped(c)
              /\ attempts[c] = 1 => Stripped(c) = {}
              /\ DOMAIN pins'[c] = {before.Maps[k].Name : k \in toReplace[c]}
              /\ \A k \in toReplace[c] : pins'[c][before.Maps[k].Name] = coll[c].Maps[k]

\* C12: when the first load attempt fails with ErrMapIncompatible (and the
\* incompatible maps are found), the spec given to the second attempt has no
\* pinning flag on any map found incompatible with its pin, and nothing else
\* changed; when the call succeeds, the maps whose pins its commit function
\* replaces are exactly the maps that carried the replace-pin marker and the
\* maps found incompatible.
C12_RetryStripsIncompatible == [][\A c \in Callers : C12_Step(c)]_vars

\* A call has loaded at its second attempt and returned a commit function for
\* a map with the marker and for a map whose pin was incompatible.
C12_Witness ==
    \E c \in Callers :
        /\ at[c] = "returned"
        /\ loadErr[c] = NoErr
        /\ attempts[c] = 2
        /\ Marked # {}
        /\ Stripped(c) # {}
        /\ DOMAIN pins[c] = {heap[specRef[c]].Maps[k].Name : k \in Marked \cup Stripped(c)}

\* the maps the kernel gave call c: those of its Collection and those Assign
\* has moved into to
Handles(c) ==
    [k \in DOMAIN coll[c].Maps \cup DOMAIN to[c] |->
        IF k \in DOMAIN to[c] THEN to[c][k] ELSE coll[c].Maps[k]]

\* the step is the invocation of the commit function of call c
Commits(c) == at[c] # "committed" /\ at'[c] = "committed"

\* the names under which the maps of toReplace of call c are pinned
ReplacedNames(c) == {heap[specRef[c]].Maps[k].Name : k \in toReplace[c]}

\* C13: no step of LoadCollection changes or removes a pin that is there; a
\* pin is overwritten only by the invocation of a commit function, which
\* writes the pin of every map of the to-replace set of its call, with the
\* map of the Collection of that call, and the pin of no other map.
C13_PinsReplacedByCommitOnly ==
    [][ /\ (\A c \in Callers : ~Commits(c))
           => \A n \in DOMAIN bpffs : n \in DOMAIN bpffs' /\ bpffs'[n] = bpffs[n]
        /\ \A c \in Callers :
              Commits(c)
              => /\ DOMAIN bpffs' = DOMAIN bpffs \cup ReplacedNames(c)
                 /\ \A k \in toReplace[c] :
                       bpffs'[heap[specRef[c]].Maps[k].Name] = Handles(c)[k]
                 /\ \A n \in DOMAIN bpffs \ ReplacedNames(c) : bpffs'[n] = bpffs[n] ]_vars

\* A call has returned with the pin of cilium_calls still the map of another
\* shape that was there before the call, and its commit function has then
\* put its own map there; a pin of no map of its to-replace set is untouched.
C13_Witness ==
    \E c \in Callers :
        /\ at[c] = "committed"
        /\ "cilium_calls" \in ReplacedNames(c)
        /\ bpffs["cilium_calls"] = Handles(c)["cilium_calls"]
        /\ bpffs["cilium_calls"].Creator = c
        /\ "cilium_calls_00042" \in DOMAIN bpffs \ ReplacedNames(c)
        /\ bpffs["cilium_calls_00042"].Creator = 0

\* call c is about to call ebpf.NewCollectionWithOptions with its spec
Loading(c) == at[c] \in {"load", "retry"}

\* C14: the spec of every kernel load attempt of LoadCollection, the first
\* and the retry, has no map with the replace-pin marker, and every map that
\* has the marker in the caller's spec is in the to-replace set of the call.
C14_MarkerNeverLoaded ==
    \A c \in Callers :
        Loading(c)
        => /\ \A k \in DOMAIN heap[specRef[c]].Maps :
                 heap[specRef[c]].Maps[k].Pinning # PinReplace
           /\ Marked \subseteq toReplace[c]

\* A call whose spec came with the marker on a map is about to retry the load.
C14_Witness ==
    \E c \in Callers :
        /\ at[c] = "retry"
        /\ Marked # {}
        /\ \A k \in Marked : heap[specRef[c]].Maps[k].Pinning = PinNone

\* call c has returned an error to its caller
Failed(c) == at[c] = "returned" /\ loadErr[c] # NoErr

\* C15: whenever LoadCollection or LoadAndAssign has returned an error after
\* a kernel load attempt of the call succeeded (mapsToReplace failed, or
\* Assign failed), the Collection that attempt created has been released.
C15_AsStated ==
    \A c \in Callers : Failed(c) => ~coll[c].loaded

\* the renames of call c
RenamesOf(c) == OptsOf(arg[c].opts).MapRenames

\* the spec of call c is the caller's spec with the renames and the constants
\* of call c, and nothing of another call
OwnRenamesAndConstants(c) ==
    LET own == heap[specRef[c]]
        shared == heap[InputRef]
    IN  /\ DOMAIN own.Maps = DOMAIN shared.Maps
        /\ \A k \in DOMAIN own.Maps :
              /\ own.Maps[k].Name =
                    IF k \in DOMAIN RenamesOf(c) THEN RenamesOf(c)[k] ELSE shared.Maps[k].Name
              /\ own.Maps[k].ValueSize = shared.Maps[k].ValueSize
        /\ DOMAIN own.Variables = DOMAIN shared.Variables
        /\ \A v \in DOMAIN own.Variables :
              own.Variables[v] =
                 IF \E f \in DOMAIN FieldsOf(c) : v = ConstantPrefix \o f
                 THEN [shared.Variables[v] EXCEPT
                         !.Value = FieldsOf(c)[CHOOSE f \in DOMAIN FieldsOf(c) :
                                                  v = ConstantPrefix \o f].v]
                 ELSE shared.Variables[v]
        /\ own.Programs = shared.Programs

\* C16: calls of LoadCollection that are given the same spec, with renames
\* and constants of their own, do not interfere, however their steps are
\* interleaved: the spec of every kernel load attempt of a call has the
\* renames and constants of that call and none of another call, and the
\* spec they share is as the caller made it.
C16_NoInterference ==
    /\ heap # <<>> => heap[InputRef] \in LoadSpecs
    /\ \A c \in Callers : Loading(c) => OwnRenamesAndConstants(c)

\* Two calls on separate threads, with different renames and different
\* constants, are both about to load.
C16_Witness ==
    /\ concurrent
    /\ \E c, d \in Callers :
          /\ c # d
          /\ Loading(c) /\ Loading(d)
          /\ RenamesOf(c) # Empty /\ RenamesOf(d) # Empty
          /\ RenamesOf(c) # RenamesOf(d)
          /\ FieldsOf(c) # Empty /\ FieldsOf(d) # Empty
          /\ FieldsOf(c) # FieldsOf(d)
          /\ heap[specRef[c]] # heap[specRef[d]]

(***************************************************************************)
(* Claims about the scan of removeUnreachableTailcalls, checked under      *)
(* Spec.                                                                   *)
(***************************************************************************)
\* the step is a scan (visit) of the program with key k
Scans(k) == scanned' = Append(scanned, k)

\* the scan has returned the error of a tail call to a slot without candidate
UnknownIndex(e, p) == p = "failed" /\ e = "tail call to unknown index"

\* A scan takes every idiom into cilium_calls with its call at index first or
\* later as a static tail call: the candidate of the slot is marked as
\* referenced, or the scan returns the error of the unknown index (which it
\* does when the slot has no candidate).
RecognizedFrom(first) ==
    \A k \in DOMAIN spec.Programs :
        Scans(k)
        => LET insns == spec.Programs[k].Instructions
           IN  \A i \in first .. (Len(insns) - 1) :
                  (CallSite(insns, i, TRUE) /\ At(insns, i - 2).ref = Calls)
                  => LET slot == At(insns, i - 1).constant
                     IN  /\ slot \notin DOMAIN tailcalls => UnknownIndex(err', pc')
                         /\ slot \in DOMAIN tailcalls
                            => \/ tailcalls'[slot].referenced
                               \/ UnknownIndex(err', pc')

\* C17 (as stated): the idiom is recognized wherever it can be, at every
\* index i with 2 <= i < length: the scan marks the candidate of the slot as
\* referenced or returns the error of the unknown index.  A program that is
\* just the three instructions keeps its target.
C17_AsStated == [][RecognizedFrom(2)]_vars

\* C17 (amended): the idiom is recognized at every index i with
\* 3 <= i < length: the scan marks the candidate of the slot as referenced or
\* returns the error of the unknown index.  The idiom with its call at index
\* 2 is not looked at: a scan marks no candidate but those of the call sites
\* at index 3 or later, so a program that is just the three instructions
\* does not keep its target.
C17_IdiomRecognized ==
    [][ /\ RecognizedFrom(3)
        /\ \A k \in DOMAIN spec.Programs :
              Scans(k)
              => \A s \in DOMAIN tailcalls :
                    (tailcalls'[s].referenced /\ ~tailcalls[s].referenced)
                    => s \in Targets(spec.Programs[k].Instructions, 3, FALSE) ]_vars

\* An entrypoint with the idiom at index 3 has been scanned and the candidate
\* of its slot is marked, and so is the candidate that this one calls.
C17_Witness ==
    /\ pc = "reset"
    /\ \E k \in Entrypoints, s1, s2 \in DOMAIN tailcalls :
          /\ s1 # s2
          /\ s1 \in Targets(InProgs[k].Instructions, 3, TRUE)
          /\ tailcalls[s1].referenced /\ tailcalls[s1].visited
          /\ s2 \in Targets(InProgs[tailcalls[s1].spec].Instructions, 3, TRUE)
          /\ tailcalls[s2].referenced

\* The loop at the label reset runs on: its next turn, or the step that
\* follows it, is taken.
FairSpec == Spec /\ WF_vars(Prune_VisitTailcall \/ Prune_Delete)

\* no program is scanned twice in one run of removeUnreachableTailcalls
ScannedOnce == \A i, j \in DOMAIN scanned : scanned[i] = scanned[j] => i = j

\* no candidate is referenced and not visited
FixedPoint == \A s \in DOMAIN tailcalls : tailcalls[s].referenced => tailcalls[s].visited

\* C18: the loop at the label reset terminates on every bundle, a tail call
\* graph with cycles or with calls of a program to itself included: it
\* visits a candidate at most once, it is left in the end, and it is left
\* with no candidate referenced and not visited, or with an error.
C18_Terminates ==
    /\ []ScannedOnce
    /\ [][(pc = "reset" /\ pc' # "reset")
            => \/ UnknownIndex(err', pc')
               \/ pc' = "call" /\ FixedPoint]_vars
    /\ (pc = "reset") ~> (pc # "reset")

\* The pruning has ended on a bundle in which two candidates call each other,
\* and both are kept.
C18_Witness ==
    /\ Pruned /\ runs = 1
    /\ \E k, j \in Candidates \cap DOMAIN spec.Programs :
          /\ k # j
          /\ SlotOf(j) \in Targets(InProgs[k].Instructions, FirstScanned, TRUE)
          /\ SlotOf(k) \in Targets(InProgs[j].Instructions, FirstScanned, TRUE)

\* the keys of the programs that visit has scanned in this run
ScannedKeys == {scanned[i] : i \in DOMAIN scanned}

\* C19: in every state of removeUnreachableTailcalls every candidate is
\* unvisited, then referenced, then visited: visited implies referenced, no
\* flag that is set is reset while the table lives, the instructions of a
\* candidate are scanned only while it is referenced and not yet visited, and
\* a candidate that is not referenced has not been scanned.
C19_EntryOrder ==
    /\ [](\A s \in DOMAIN tailcalls :
            /\ tailcalls[s].visited => tailcalls[s].referenced
            /\ tailcalls[s].spec \in ScannedKeys => tailcalls[s].referenced)
    /\ [][\A s \in DOMAIN tailcalls :
            /\ s \in DOMAIN tailcalls'
               => /\ tailcalls[s].referenced => tailcalls'[s].referenced
                  /\ tailcalls[s].visited => tailcalls'[s].visited
                  /\ tailcalls'[s].spec = tailcalls[s].spec
            /\ Scans(tailcalls[s].spec)
               => tailcalls[s].referenced /\ ~tailcalls[s].visited]_vars

\* One candidate is visited, one it refers to is referenced and not yet
\* visited.
C19_Witness ==
    /\ pc = "reset"
    /\ \E s1, s2 \in DOMAIN tailcalls :
          /\ tailcalls[s1].referenced /\ tailcalls[s1].visited
          /\ tailcalls[s2].referenced /\ ~tailcalls[s2].visited
          /\ tailcalls[s2].spec \notin ScannedKeys
          /\ s2 \in Targets(InProgs[tailcalls[s1].spec].Instructions, FirstScanned, TRUE)

\* the slots of the idioms of insns that go through a map other than
\* cilium_calls
OtherMapTargets(insns) ==
    { At(insns, i - 1).constant :
        i \in {j \in FirstScanned .. (Len(insns) - 1) :
                 CallSite(insns, j, TRUE) /\ At(insns, j - 2).ref # Calls} }

\* C20: a static tail call idiom through a map other than cilium_calls is no
\* edge of the dispatch graph: a scan marks no candidate and returns no error
\* but for its call sites into cilium_calls, whether the slot of the idiom
\* through the other map is that of a candidate or of none.
C20_OtherMapsIgnored ==
    [][\A k \in DOMAIN spec.Programs :
          Scans(k)
          => LET insns == spec.Programs[k].Instructions
                 targets == Targets(insns, FirstScanned, FALSE)
             IN  /\ \A s \in DOMAIN tailcalls :
                       (tailcalls'[s].referenced /\ ~tailcalls[s].referenced)
                       => s \in targets
                 /\ UnknownIndex(err', pc') => ~(targets \subseteq DOMAIN tailcalls)
                 /\ targets = {} => /\ tailcalls' = tailcalls \/ pc = "reset"
                                    /\ err' = err ]_vars

\* An entrypoint whose only idiom goes through another map, to the slot of a
\* candidate, has been scanned: the pruning has succeeded and the candidate
\* is gone.
C20_Witness ==
    /\ Pruned /\ runs = 1
    /\ \E e \in Entrypoints, k \in Candidates :
          /\ SlotOf(k) \in OtherMapTargets(InProgs[e].Instructions)
          /\ Targets(InProgs[e].Instructions, FirstScanned, FALSE) = {}
          /\ k \notin DOMAIN spec.Programs

(***************************************************************************)
(* Claims about classifyProgramTypes and iproute2Compat, checked under     *)
(* Spec.                                                                   *)
(***************************************************************************)
\* the types the parser gave to programs of the bundle
ParserVerdicts ==
    {InProgs[n].Type : n \in {m \in DOMAIN InProgs : InProgs[m].Type # UnspecifiedProgram}}

\* classifyProgramTypes has returned nil
Classified == stage >= StepIndex("classifyProgramTypes") /\ pc # "failed"

\* C21: the default type of the bundle is the type of a program the parser
\* classified whenever there is one; the table of known entrypoint names
\* decides only when no program has a type from the parser.  So the types
\* given to the unspecified programs depend on the bundle alone and not on
\* the order in which the programs are taken.
C21_AsStated ==
    (Classified /\ ParserVerdicts # {})
    => \A n \in DOMAIN spec.Programs :
          InProgs[n].Type = UnspecifiedProgram => spec.Programs[n].Type \in ParserVerdicts

\* the trailer of map k, as the parser returned it
TrailerOf(k) == input.Maps[k].Extra

\* The turn of the loop over spec.Maps that takes map k does what the claim
\* says of it; with `whole` only a trailer of the whole length is decoded.
TrailerTurn(k, whole) ==
    LET m == spec.Maps[k]
        earlier == {o \in DOMAIN input.Maps \ todo :
                      LegacyId(o) # 0 /\ LegacyId(o) = LegacyId(k)}
    IN  /\ \A o \in DOMAIN spec.Maps \ {k} : spec'.Maps[o] = spec.Maps[o]
        /\ DOMAIN spec'.Maps = DOMAIN spec.Maps
        /\ spec'.Programs = spec.Programs
        /\ IF Len(TrailerOf(k)) = 0
           THEN /\ spec'.Maps[k] = m
                /\ maps' = maps
                /\ pc' # "failed"
           ELSE IF whole /\ Len(TrailerOf(k)) < TailSize
           THEN /\ spec'.Maps[k].Pinning = m.Pinning
                /\ maps' = maps
                /\ pc' = "failed" /\ ret' = "nil"
                /\ err' = "reading iproute2 map definition"
           ELSE /\ Len(TrailerOf(k)) >= 8
                /\ spec'.Maps[k].Pinning = DecU32(TrailerOf(k), 4, input.ByteOrder)
                /\ spec'.Maps[k].Name = m.Name
                /\ spec'.Maps[k].Contents = m.Contents
                /\ IF LegacyId(k) = 0
                   THEN maps' = maps /\ pc' # "failed"
                   ELSE IF earlier # {}
                   THEN /\ maps' = maps
                        /\ pc' = "failed" /\ ret' = "nil"
                        /\ \E o \in earlier :
                              err' = "maps " \o input.Maps[k].Name \o " and " \o
                                     input.Maps[o].Name \o
                                     " have duplicate iproute2 map ID"
                   ELSE /\ pc' # "failed"
                        /\ DOMAIN maps' = DOMAIN maps \cup {LegacyId(k)}
                        /\ maps'[LegacyId(k)] = k
                        /\ \A i \in DOMAIN maps : maps'[i] = maps[i]

\* two maps of the bundle carry one trailer id that is not 0
DuplicateMapID ==
    \E m1, m2 \in DOMAIN input.Maps :
        m1 # m2 /\ LegacyId(m1) # 0 /\ LegacyId(m1) = LegacyId(m2)

\* C22 (as stated): in the trailer pass of iproute2Compat every map with a
\* trailer that is not empty gets the pinning field of the trailer as its
\* pin type; a map of trailer id 0 is not indexed; a second map of a trailer
\* id that is not 0 gives an error that names both maps, in whatever order
\* the maps are taken.  A map without trailer keeps its pin type.
C22_AsStated ==
    [][pc = "maps" => \A k \in todo \ todo' : TrailerTurn(k, FALSE)]_vars

\* C22 (amended): in the trailer pass of iproute2Compat every map with a
\* trailer of the whole length (16 bytes) gets the pinning field of the
\* trailer, read in the byte order of the bundle, as its pin type; a trailer
\* that is not empty and shorter makes the pass return a read error and
\* leaves the pin type; a map of trailer id 0 is not indexed; a second map
\* of a trailer id that is not 0 gives an error that names both maps, in
\* whatever order the maps are taken, so that a bundle with two such maps is
\* never translated.  A map without trailer keeps its pin type.
C22_TrailerPass ==
    /\ [][pc = "maps" => \A k \in todo \ todo' : TrailerTurn(k, TRUE)]_vars
    /\ [](DuplicateMapID => ~Succeeded("iproute2Compat"))

\* The pass has ended on a big endian bundle: the map of trailer id 0 has the
\* pin type of its trailer and is not indexed, the map without trailer has
\* the pin type it had, the calls map is indexed.
C22_Witness ==
    /\ pc = "progs"
    /\ input.ByteOrder = "BigEndian"
    /\ Len(TrailerOf("aux_calls")) = TailSize
    /\ LegacyId("aux_calls") = 0
    /\ spec.Maps["aux_calls"].Pinning = 2
    /\ TrailerOf("plain") = <<>>
    /\ spec.Maps["plain"].Pinning = input.Maps["plain"].Pinning
    /\ DOMAIN maps = {cilium_calls_map}
    /\ maps[cilium_calls_map] = Calls

(***************************************************************************)
(* More claims about LoadCollection, checked under LoadSpec.               *)
(***************************************************************************)
\* the arguments of call c make a step before the load fail: no spec, a
\* rename of a map key the spec does not have, or constants that cannot be
\* applied
NilSpec(c) == arg[c].spec = NilRef
UnknownRename(c) ==
    /\ ~NilSpec(c)
    /\ \E name \in DOMAIN RenamesOf(c) : name \notin DOMAIN heap[arg[c].spec].Maps
BadConstants(c) ==
    /\ ~NilSpec(c)
    /\ OptsOf(arg[c].opts).Constants.kind # "nil"
    /\ \/ OptsOf(arg[c].opts).Constants.kind # "struct"
       \/ \E f \in DOMAIN FieldsOf(c) :
             \/ ~Settable(heap[arg[c].spec].Variables, f)
             \/ FieldsOf(c)[f].Size # heap[arg[c].spec].Variables[ConstantPrefix \o f].Size
PreloadFails(c) == NilSpec(c) \/ UnknownRename(c) \/ BadConstants(c)

\* the errors of the steps before the load
PreloadErrors ==
    { "can't load nil CollectionSpec",
      "unknown map: can't rename",
      "applying variable overrides: converting struct to map",
      "applying variable overrides: can't set non-existent Variable",
      "applying variable overrides: can only set Cilium config variables in section",
      "applying variable overrides: setting Variable" }

\* call c has touched nothing of the kernel and has nothing to hand out
Untouched(c) ==
    /\ attempts[c] = 0
    /\ coll[c] = NoColl
    /\ pins[c] = Empty
    /\ at[c] \notin {"load", "incompatibleMaps", "retry", "mapsToReplace", "assigned",
                     "committed"}

\* C23: a call of LoadCollection with a nil spec, with a rename of a map key
\* that is not in the spec, or with constants that cannot be applied never
\* attempts the kernel load: it returns one of the errors of the steps
\* before the load, with no Collection and no commit function, and no step of
\* it changes a pin.  A call that has returned one of these errors has not
\* attempted the load.
C23_NoLoadAfterPreloadFailure ==
    /\ [](\A c \in Callers :
            /\ PreloadFails(c)
               => /\ Untouched(c)
                  /\ at[c] = "returned" => loadErr[c] \in PreloadErrors
            /\ (Failed(c) /\ loadErr[c] \in PreloadErrors)
               => PreloadFails(c) /\ Untouched(c))
    /\ [][\A c \in Callers :
            (PreloadFails(c) /\ at'[c] # at[c]) => bpffs' = bpffs]_vars

\* A call that was given a constant of the wrong size has returned the error
\* of applyConstants without a load attempt, a Collection or a pin to write,
\* while another call has loaded its Collection.
C23_Witness ==
    \E c, d \in Callers :
        /\ Failed(c) /\ BadConstants(c) /\ ~UnknownRename(c)
        /\ loadErr[c] = "applying variable overrides: setting Variable"
        /\ attempts[c] = 0
        /\ coll[c] = NoColl
        /\ pins[c] = Empty
        /\ attempts[d] > 0 /\ coll[d].loaded

\* call c has returned its Collection and commit function
HandedOut(c) == at[c] \in {"returned", "assigned", "committed"} /\ loadErr[c] = NoErr

\* C24: the pins the commit function of a call writes are fixed when
\* LoadCollection returns.  They are then the maps the kernel gave the call
\* for the maps of its to-replace set, no step after the return changes them,
\* Assign that moves maps out of the returned Collection included, and the
\* commit function writes every one of them.
C24_PinsFixedAtReturn ==
    /\ [](\A c \in Callers :
            HandedOut(c)
            => /\ DOMAIN pins[c] = ReplacedNames(c)
               /\ \A k \in toReplace[c] :
                     /\ k \in DOMAIN Handles(c)
                     /\ pins[c][heap[specRef[c]].Maps[k].Name] = Handles(c)[k])
    /\ [][\A c \in Callers :
            /\ HandedOut(c) => pins'[c] = pins[c] /\ toReplace'[c] = toReplace[c]
            /\ Commits(c)
               => \A n \in DOMAIN pins[c] : n \in DOMAIN bpffs' /\ bpffs'[n] = pins[c][n]]_vars

\* LoadAndAssign has moved the map of the to-replace set out of the
\* Collection, and the commit function has then put that map in the place of
\* the pin that was there before the call.
C24_Witness ==
    \E c \in Callers :
        /\ at[c] = "committed"
        /\ arg[c].assign
        /\ "cilium_calls" \in toReplace[c]
        /\ "cilium_calls" \notin DOMAIN coll[c].Maps
        /\ "cilium_calls" \in DOMAIN to[c]
        /\ bpffs["cilium_calls"] = to[c]["cilium_calls"]
        /\ bpffs["cilium_calls"].Creator = c

(***************************************************************************)
(* What removeUnreachableTailcalls leaves alone, checked under Spec.       *)
(***************************************************************************)
\* the programs a step takes out of the bundle
Removed == DOMAIN spec.Programs \ DOMAIN spec'.Programs

\* the tail calls of the running traversal that no scanned program refers to
Unmarked == {tailcalls[s].spec : s \in {x \in DOMAIN tailcalls : ~tailcalls[x].referenced}}

\* removeUnreachableTailcalls is running
Traversing == pc \in {"partition", "entry", "reset"}

\* A step of removeUnreachableTailcalls does what the claim says of it.
C25_Step ==
    /\ spec'.Maps = spec.Maps
    /\ spec'.Variables = spec.Variables
    /\ spec'.ByteOrder = spec.ByteOrder
    /\ DOMAIN spec'.Programs \subseteq DOMAIN spec.Programs
    /\ \A k \in DOMAIN spec'.Programs : spec'.Programs[k] = spec.Programs[k]
    /\ \A k \in DOMAIN spec.Programs :
          ~IsCandidate(spec.Programs[k].SectionName) => k \in DOMAIN spec'.Programs
    /\ Removed # {}
       => /\ pc = "reset" /\ ToVisit = {}
          /\ pc' = "call" /\ err' = NoErr
          /\ Removed = Unmarked
          /\ \A k \in Removed : IsCandidate(spec.Programs[k].SectionName)
    /\ pc' = "failed" => (spec' = spec /\ err' \in PruneErrors)

\* C25: no step of removeUnreachableTailcalls writes to the entrypoints, to
\* a program it keeps, to the maps, the variables or the byte order of the
\* bundle, or adds a program.  A program is removed only by the step that
\* ends a traversal without an error, and it is then a candidate (named
\* <calls map id>/<slot>) that the traversal has not found referenced; no
\* entrypoint and no referenced candidate is removed.  When the function
\* returns an error (duplicate slot, unknown tail call index) the bundle is
\* as it was given.
C25_PruneFrame ==
    /\ [][Traversing => C25_Step]_vars
    /\ []((pc = "failed" /\ err \in PruneErrors) => spec = input)

\* The traversal has failed at a tail call to an unknown index in the second
\* program it scanned, a candidate is not referenced, and the bundle still
\* has every program it was given.
C25_Witness ==
    /\ pc = "failed"
    /\ err = "tail call to unknown index"
    /\ \E s \in DOMAIN tailcalls : ~tailcalls[s].referenced
    /\ Len(scanned) >= 2
    /\ spec = input
    /\ DOMAIN spec.Programs = DOMAIN input.Programs

====
